---- MODULE Spec2Model ----
(***************************************************************************)
(* Download-coordination core of coomer-scraper-lite:                      *)
(*   TaskQueue        (task-queue.js)      locks and task records in Redis *)
(*   ProxyDownloader  (proxy-downloader.js) downloadFile with retry        *)
(*   ProxyOrchestrator(proxy-orchestrator.js) submit-one / submit-batch    *)
(* Every Redis command is one atomic step; the JavaScript between two      *)
(* awaits runs without interleaving and is folded into the step that       *)
(* follows the reply.                                                      *)
(***************************************************************************)
EXTENDS Integers, Sequences, FiniteSets, TLC

VARIABLES
  lock,        \* task-lock:{taskId}         Redis entry per destination path
  inProgress,  \* task-in-progress:{taskId}
  completed,   \* task-completed:{taskId}
  failed,      \* task-failed:{taskId}
  skip,        \* skip-download-2:{outputFilePath}
  file,        \* fs.existsSync(outputFilePath)
  pc,          \* position of each invocation in downloadFile (or of a TaskQueue client)
  sub,         \* Redis commands the invocation still has to run inside its current await chain
  ret,         \* value returned by the last acquireLock / releaseLock / get
  wid,         \* proxyId of the ProxyDownloader running the invocation
  dest,        \* outputFilePath of the attachment (the task id)
  frames,      \* nested downloadFile calls: <<[rc, ac, hop]>>, innermost last
  res,         \* result object the promise resolved with
  err,         \* error the promise rejected with
  attempts,    \* HTTP transfers issued by the submission, redirect hops not counted
  xfer,        \* how the transfers of the submission ended so far
  obs,         \* what the submission did so far: .then runs, responses seen, in-progress written
  audit,       \* whether attempts, xfer and obs are recorded in this specification
  downloaders,     \* ProxyOrchestrator.downloaders, each by its proxyId, in registration order
  proxyHealth,     \* ProxyOrchestrator.proxyHealth: proxyId -> {status, failureCount, lastFailure}
  strategy,        \* ProxyOrchestrator.strategy
  roundRobinIndex, \* ProxyOrchestrator.roundRobinIndex
  now,             \* Date.now()
  selected,        \* what the last selectProxyDownloader() returned: <<>> for null, else <<proxyId>>
  cands,           \* the candidate list of the last selectProxyDownloader()
  report,          \* what the last getProxyHealth() returned
  postTasks,       \* ProxyOrchestrator.downloadPostBatch: the async function of every post
  streak,          \* rejected downloadFile calls in a row, per downloader the orchestrator chose
  postLimit,       \* ProxyDownloader.postLimit, per downloader: the p-limit queue and the running posts
  attachmentLimit, \* ProxyDownloader.attachmentLimit, per downloader
  isInitialized,   \* ProxyOrchestrator.isInitialized
  proxiesConfig,   \* what getProxiesConfig() returns: the descriptors of PROXY_LIST
  proxies,         \* ProxyOrchestrator.proxies: the descriptor of each downloader
  stats,           \* ProxyDownloader.stats of each downloader, in registration order
  orchStats,       \* ProxyOrchestrator.orchStats
  localQueue,      \* TaskQueue.localQueue: the ids of the tasks added and not removed
  logs,            \* the lines written through logger / console so far
  agentCache,      \* http-agent-factory agentCache: cache key -> agent
  agentsMade,      \* agents constructed so far; an agent is named by its rank of construction
  pooled,          \* what getHttpsAgent returned so far: which agent for which descriptor
  destroyed,       \* the agents agent.destroy() was called on
  retry,           \* getConcurrencyConfig(): maxRetries, retryBackoffMultiplier, retryBaseDelay
  attemptCount,    \* attemptCount of the downloadFile call whose transfers keep failing
  delay            \* the delay of the last setTimeout of the .catch handler, <<>> before the first

orchVars == <<downloaders, proxyHealth, strategy, roundRobinIndex, now, selected,
              cands, report, postTasks, streak>>
gateVars == <<postLimit, attachmentLimit>>
lifeVars == <<isInitialized, proxiesConfig, proxies, stats, orchStats, localQueue, logs>>
agentVars == <<agentCache, agentsMade, pooled, destroyed>>
retryVars == <<retry, attemptCount, delay>>
restVars == <<lifeVars, agentVars, retryVars>>

vars == <<lock, inProgress, completed, failed, skip, file, pc, sub, ret, wid,
          dest, frames, res, err, attempts, xfer, obs, audit, orchVars, gateVars, restVars>>

storeVars == <<lock, inProgress, completed, failed, skip>>
callVars == <<frames, res, err, attempts, xfer, obs, audit, orchVars, gateVars, restVars>>
downloadVars == <<file, pc, sub, ret, wid, dest, frames, res, err, attempts, xfer, obs, audit>>

----------------------------------------------------------------------------
(* Bounds of the model *)

NumProcs == 2      \* concurrent downloadFile submissions
NumClients == 2    \* concurrent callers of the TaskQueue methods
NumPaths == 1      \* destination paths
MaxRetries == 1    \* PROXY_MAX_RETRIES of the modelled deployment
PostLimit == 1     \* PROXY_POST_LIMIT of the modelled deployment
AttachmentLimit == 2   \* PROXY_ATTACHMENT_LIMIT of the modelled deployment
NumUnits == 3      \* posts handed to one downloadPostBatch call
MaxAttachments == 3    \* attachments a postProcessor returns for one post
MaxFailures == 4   \* recordProxyFailure calls per proxy
MaxTicks == 2      \* advances of the clock
MaxSelections == 3     \* round-robin selections outside a batch
MaxPending == 1    \* calls waiting at a gate when a selection is made
MaxDescriptors == 2    \* descriptors in PROXY_LIST
MaxWorkers == 3    \* downloaders an orchestrator registers over its life
MaxAssigned == 2   \* tasks assigned before the last downloadPostBatch call starts
LifePosts == 1     \* posts of a batch that runs between initialize and shutdown calls
BatchFiles == 2     \* attachments of a post of the one batch followed on its own
LifeFiles == 1     \* attachments of such a post
MaxPooled == 3     \* getHttpsAgent calls whose result is kept for comparison
MaxRetriesConfig == 3  \* PROXY_MAX_RETRIES values the backoff is computed for

Procs == 1..NumProcs
Clients == 1..NumClients
Slots == 1..(IF NumProcs > NumClients THEN NumProcs ELSE NumClients)
Paths == 1..NumPaths

(* Program constants *)

MaxRedirects == 1
LockTTL == 3600
TaskTTL == 86400
SkipCacheTTL == 3600
FailureThreshold == 3
RecoveryDelay == 300000
DefaultMaxRetries == 3
DefaultBackoff == 2
DefaultBaseDelay == 1000

(* getProxyId: "localhost" or `${ip}:${port}`, as sequences of characters *)
Localhost == <<"l">>
ProxyA == <<"h", ":", "8", "0">>
ProxyB == <<"h", ":", "8", "0", "8", "0">>
ProxyIds == {Localhost, ProxyA, ProxyB}

(* the downloaders the orchestrator built from PROXY_LIST *)
Downloaders == {Localhost, ProxyA}

----------------------------------------------------------------------------
(* Redis entries *)

NoKey == [st |-> "none", val |-> <<>>, ex |-> 0]
Expired == [st |-> "expired", val |-> <<>>, ex |-> 0]
Entry(v, ttl) == [st |-> "set", val |-> v, ex |-> ttl]
Exists(e) == e.st = "set"
Get(e) == IF Exists(e) THEN e.val ELSE <<>>
Del(e) == IF Exists(e) THEN NoKey ELSE e

(* String.prototype.startsWith *)
StartsWith(s, prefix) ==
  /\ Len(prefix) <= Len(s)
  /\ SubSeq(s, 1, Len(prefix)) = prefix

(* `${proxyId}:${Date.now()}`; the timestamp is the token of the acquiring invocation *)
LockValue(w, p) == w \o <<":", ToString(p)>>

Cmd(op) == [op |-> op, arg |-> <<>>]
CmdArg(op, a) == [op |-> op, arg |-> a]

ReleaseLockCmds == <<Cmd("lock_get"), Cmd("lock_del")>>

MarkCompletedCmds(meta) == <<CmdArg("markCompleted", meta)>>

\* markFailed without its releaseLock call
MarkFailedCmds_NoRelease(e) == <<CmdArg("failed_set", <<e>>), Cmd("inprogress_del_f")>>

MarkFailedCmds(e) ==
  <<CmdArg("failed_set", <<e>>)>> \o ReleaseLockCmds \o <<Cmd("inprogress_del_f")>>

Top(p) == frames[p][Len(frames[p])]

Running(p, op) == sub[p] # <<>> /\ Head(sub[p]).op = op
At(p, label) == pc[p] = label /\ sub[p] = <<>>

\* nothing recorded yet for a submission
\* skipCount is stats.skipCount: set to 0 by the constructor and by resetStats, written nowhere else
NoObs == [succ |-> 0, chain |-> <<>>, mark |-> FALSE, skipCount |-> 0]

\* the responses a submission received, in order; "more" once longer than any chain
\* the redirect limit lets through
Note(c, r) ==
  IF c # <<>> /\ c[1] = "more" THEN c
  ELSE IF Len(c) <= MaxRedirects + 1 THEN Append(c, r) ELSE <<"more">>

\* the response r of p's request has been dealt with
Seen(p, r) == [obs EXCEPT ![p].chain = IF audit THEN Note(@, r) ELSE @]

\* line 243: this.stats.successCount++
SuccessCounted(p) ==
  [obs EXCEPT ![p].succ = IF audit /\ @ < MaxRedirects + 2 THEN @ + 1 ELSE @]

\* line 115: markInProgress has written the in-progress marker
InProgressWritten(p) == [obs EXCEPT ![p].mark = IF audit THEN TRUE ELSE @]

----------------------------------------------------------------------------
(* ProxyOrchestrator and the gates of its downloaders: the state after construction *)

\* PROXY_STATUS
Healthy == "healthy"
Degraded == "degraded"
Unhealthy == "unhealthy"

\* DISTRIBUTION_STRATEGY
RoundRobin == "round-robin"
LoadBalanced == "load-balanced"
FirstAvailable == "first-available"
Strategies == {RoundRobin, LoadBalanced, FirstAvailable}

Units == 1..NumUnits

\* who called attachmentLimit(...): a post of downloadPostBatch, or 0 for a direct
\* downloadAttachmentBatch call
Owners == 0..NumUnits

\* the proxyIds of this.downloaders
Registered == {downloaders[i] : i \in 1..Len(downloaders)}

\* initialize lines 106-111; lastFailure is <<>> for null, <<timestamp>> otherwise
NewHealth == [status |-> Healthy, failureCount |-> 0, lastFailure |-> <<>>]

\* pLimit(n) with nothing queued and nothing running
IdlePostGate == [queue |-> <<>>, active |-> {}]
IdleAttachmentGate == [queue |-> <<>>, active |-> [o \in Owners |-> 0]]

\* Date.now() at construction: a reading of the epoch clock, far beyond the recovery delay
StartTime == RecoveryDelay + 1

NoPost == [st |-> "none", left |-> 0, w |-> <<>>, task |-> 0]

GatesIdle ==
  /\ postLimit = [d \in Downloaders |-> IdlePostGate]
  /\ attachmentLimit = [d \in Downloaders |-> IdleAttachmentGate]

(* Worker descriptors: the elements of PROXY_LIST. A field that is missing, empty
   or zero is the empty sequence; ip, port, username and password are sequences of
   characters, so that the templates that join them are modelled as they join. *)
Direct == [isLocalhost |-> TRUE, ip |-> <<>>, port |-> <<>>, username |-> <<>>, password |-> <<>>]

Proxied(ip, port, username, password) ==
  [isLocalhost |-> FALSE, ip |-> ip, port |-> port, username |-> username, password |-> password]

\* the descriptor initialize() built the downloader id from
DescriptorOf(id) ==
  IF id = Localhost THEN Direct ELSE Proxied(<<"h">>, SubSeq(id, 3, Len(id)), <<>>, <<>>)

\* a PROXY_LIST whose valid descriptors are those of ds
ConfigFor(ds) ==
  IF ds = <<>> THEN <<Proxied(<<>>, <<"8", "0">>, <<>>, <<>>)>>
  ELSE [i \in 1..Len(ds) |-> DescriptorOf(ds[i])]

\* validateProxyConfig, lines 90-101: !proxy.ip, !proxy.port are true of a missing,
\* empty or zero field
ValidateProxyConfig_IpOnly(proxy) == proxy.isLocalhost \/ proxy.ip # <<>>

ValidateProxyConfig(proxy) ==
  IF proxy.isLocalhost THEN TRUE
  ELSE IF proxy.ip = <<>> \/ proxy.port = <<>> THEN FALSE
  ELSE TRUE

\* getProxyId, lines 106-111
GetProxyId(proxy) ==
  IF proxy.isLocalhost THEN Localhost ELSE proxy.ip \o <<":">> \o proxy.port

\* a line handed to logger[level] or console: its fixed text, the proxyId or count
\* interpolated into it, and the descriptor printed with it (<<>> for none)
Line(text, id, n, shown) == [text |-> text, id |-> id, n |-> n, shown |-> shown]

\* what initialize() logs for the descriptors cfg when it finds all downloaders
\* registered so far: proxy-config.js lines 72 and 96, proxy-orchestrator.js lines
\* 90, 113, 121 and 124
InitializeLines(cfg, all) ==
  {Line("Loaded proxies from PROXY_LIST environment variable", <<>>, Len(cfg), <<>>)}
  \cup {Line("Invalid proxy configuration: missing ip or port", <<>>, 0, <<cfg[i]>>) :
          i \in {j \in 1..Len(cfg) : ~ValidateProxyConfig(cfg[j])}}
  \cup {Line("Skipping invalid proxy configuration: JSON.stringify(proxy)", <<>>, 0, <<cfg[i]>>) :
          i \in {j \in 1..Len(cfg) : ~ValidateProxyConfig(cfg[j])}}
  \cup {Line("Initialized proxy downloader", GetProxyId(cfg[i]), 0, <<>>) :
          i \in {j \in 1..Len(cfg) : ValidateProxyConfig(cfg[j])}}
  \cup {IF all = 0
          THEN Line("Failed to initialize orchestrator: No valid proxy downloaders initialized",
                    <<>>, 0, <<>>)
          ELSE Line("Proxy orchestrator initialized with downloader(s)", <<>>, all, <<>>)}

\* ProxyDownloader constructor, lines 52-58 (resetStats, lines 347-355)
NoStats == [successCount |-> 0, failureCount |-> 0]

\* ProxyOrchestrator constructor, lines 62-67
NoOrchStats == [totalTasksAssigned |-> 0, totalTasksCompleted |-> 0, totalTasksFailed |-> 0]

\* getConcurrencyConfig, lines 37-43, with no PROXY_* variable in the environment
DefaultRetry ==
  [maxRetries |-> DefaultMaxRetries, retryBackoffMultiplier |-> DefaultBackoff,
   retryBaseDelay |-> DefaultBaseDelay]

\* no agent was asked for yet and no transfer has failed yet
Unused ==
  /\ agentCache = {}
  /\ agentsMade = 0
  /\ pooled = {}
  /\ destroyed = {}
  /\ attemptCount = 0
  /\ delay = <<>>

\* the orchestrator after initialize() with the proxy list ds and the strategy option st
Initialized(ds, st) ==
  /\ isInitialized = (ds # <<>>)
  /\ proxiesConfig = ConfigFor(ds)
  /\ proxies = [i \in 1..Len(ds) |-> DescriptorOf(ds[i])]
  /\ stats = [i \in 1..Len(ds) |-> NoStats]
  /\ orchStats = NoOrchStats
  /\ localQueue = <<>>
  /\ logs = InitializeLines(ConfigFor(ds), Len(ds))
  /\ retry = DefaultRetry
  /\ Unused
  /\ downloaders = ds
  /\ proxyHealth = [d \in {ds[i] : i \in 1..Len(ds)} |-> NewHealth]
  /\ strategy = st
  /\ roundRobinIndex = 0
  /\ now = StartTime
  /\ selected = <<>>
  /\ cands = <<>>
  /\ report = <<>>
  /\ postTasks = [u \in Units |-> NoPost]
  /\ streak = [d \in Downloaders |-> 0]

\* PROXY_LIST names localhost and one proxy; options.strategy is not given
OrchFresh == Initialized(<<Localhost, ProxyA>>, LoadBalanced) /\ GatesIdle

EmptyStore ==
  /\ lock = [k \in Paths |-> NoKey]
  /\ inProgress = [k \in Paths |-> NoKey]
  /\ completed = [k \in Paths |-> NoKey]
  /\ failed = [k \in Paths |-> NoKey]
  /\ skip = [k \in Paths |-> NoKey]

\* no downloadFile call has been made
Quiet ==
  /\ EmptyStore
  /\ file \in [Paths -> BOOLEAN]
  /\ pc = [p \in Slots |-> "idle"]
  /\ sub = [p \in Slots |-> <<>>]
  /\ ret = [p \in Slots |-> FALSE]
  /\ wid = [p \in Slots |-> Localhost]
  /\ dest = [p \in Slots |-> 1]
  /\ frames = [p \in Slots |-> <<>>]
  /\ res = [p \in Slots |-> "none"]
  /\ err = [p \in Slots |-> "none"]
  /\ attempts = [p \in Slots |-> 0]
  /\ xfer = [p \in Slots |-> "none"]
  /\ obs = [p \in Slots |-> NoObs]

Fresh == Quiet /\ OrchFresh

Init == Fresh /\ audit = FALSE

----------------------------------------------------------------------------
(* TaskQueue: one action per Redis command *)

\* acquireLock with the NX option dropped: the SET overwrites a live lock
CmdLockSetNX_NoNX(p) ==
  /\ Running(p, "lock_setnx")
  /\ ret' = [ret EXCEPT ![p] = TRUE]
  /\ lock' = [lock EXCEPT ![dest[p]] = Entry(LockValue(wid[p], p), LockTTL)]
  /\ sub' = [sub EXCEPT ![p] = Tail(@)]
  /\ UNCHANGED <<inProgress, completed, failed, skip, file, pc, wid, dest>>
  /\ UNCHANGED callVars

\* acquireLock with the EX option dropped: the lock never expires
CmdLockSetNX_NoTTL(p) ==
  /\ Running(p, "lock_setnx")
  /\ IF Exists(lock[dest[p]])
       THEN /\ ret' = [ret EXCEPT ![p] = FALSE]
            /\ lock' = lock
       ELSE /\ ret' = [ret EXCEPT ![p] = TRUE]
            /\ lock' = [lock EXCEPT ![dest[p]] = Entry(LockValue(wid[p], p), 0)]
  /\ sub' = [sub EXCEPT ![p] = Tail(@)]
  /\ UNCHANGED <<inProgress, completed, failed, skip, file, pc, wid, dest>>
  /\ UNCHANGED callVars

\* acquireLock: SET lockKey lockValue NX EX lockTTL
CmdLockSetNX(p) ==
  /\ Running(p, "lock_setnx")
  /\ IF Exists(lock[dest[p]])
       THEN /\ ret' = [ret EXCEPT ![p] = FALSE]
            /\ lock' = lock
       ELSE /\ ret' = [ret EXCEPT ![p] = TRUE]
            /\ lock' = [lock EXCEPT ![dest[p]] = Entry(LockValue(wid[p], p), LockTTL)]
  /\ sub' = [sub EXCEPT ![p] = Tail(@)]
  /\ UNCHANGED <<inProgress, completed, failed, skip, file, pc, wid, dest>>
  /\ UNCHANGED callVars

\* releaseLock: GET lockKey, then the startsWith test
CmdLockGet(p) ==
  /\ Running(p, "lock_get")
  /\ LET v == Get(lock[dest[p]])
     IN IF v # <<>> /\ StartsWith(v, wid[p])
          THEN /\ sub' = [sub EXCEPT ![p] = Tail(@)]
               /\ ret' = ret
          ELSE /\ sub' = [sub EXCEPT ![p] = Tail(Tail(@))]
               /\ ret' = [ret EXCEPT ![p] = FALSE]
  /\ UNCHANGED <<file, pc, wid, dest>>
  /\ UNCHANGED storeVars
  /\ UNCHANGED callVars

\* releaseLock: DEL lockKey, return true
CmdLockDel(p) ==
  /\ Running(p, "lock_del")
  /\ lock' = [lock EXCEPT ![dest[p]] = Del(@)]
  /\ ret' = [ret EXCEPT ![p] = TRUE]
  /\ sub' = [sub EXCEPT ![p] = Tail(@)]
  /\ UNCHANGED <<inProgress, completed, failed, skip, file, pc, wid, dest>>
  /\ UNCHANGED callVars

\* markCompleted: SET completedKey value EX taskTTL, DEL inProgressKey, DEL lockKey
CmdMarkCompleted(p) ==
  /\ Running(p, "markCompleted")
  /\ completed' = [completed EXCEPT ![dest[p]] = Entry(Head(sub[p]).arg, TaskTTL)]
  /\ inProgress' = [inProgress EXCEPT ![dest[p]] = Del(@)]
  /\ lock' = [lock EXCEPT ![dest[p]] = Del(@)]
  /\ sub' = [sub EXCEPT ![p] = Tail(@)]
  /\ UNCHANGED <<failed, skip, file, pc, ret, wid, dest>>
  /\ UNCHANGED callVars

\* markFailed: SET failedKey {proxyId, error} EX taskTTL
CmdFailedSet(p) ==
  /\ Running(p, "failed_set")
  /\ failed' = [failed EXCEPT ![dest[p]] = Entry(Head(sub[p]).arg \o wid[p], TaskTTL)]
  /\ sub' = [sub EXCEPT ![p] = Tail(@)]
  /\ UNCHANGED <<lock, inProgress, completed, skip, file, pc, ret, wid, dest>>
  /\ UNCHANGED callVars

\* markFailed: DEL inProgressKey
CmdInProgressDelF(p) ==
  /\ Running(p, "inprogress_del_f")
  /\ inProgress' = [inProgress EXCEPT ![dest[p]] = Del(@)]
  /\ sub' = [sub EXCEPT ![p] = Tail(@)]
  /\ UNCHANGED <<lock, completed, failed, skip, file, pc, ret, wid, dest>>
  /\ UNCHANGED callVars

\* markInProgress: SET inProgressKey proxyId EX lockTTL
CmdInProgressSet(p) ==
  /\ Running(p, "inprogress_set")
  /\ inProgress' = [inProgress EXCEPT ![dest[p]] = Entry(wid[p], LockTTL)]
  /\ sub' = [sub EXCEPT ![p] = Tail(@)]
  /\ obs' = InProgressWritten(p)
  /\ UNCHANGED <<lock, completed, failed, skip, file, pc, ret, wid, dest>>
  /\ UNCHANGED <<frames, res, err, attempts, xfer, audit, orchVars, gateVars, restVars>>

\* getInProgressProxy: GET inProgressKey (only logged)
CmdInProgressGet(p) ==
  /\ Running(p, "inprogress_get")
  /\ sub' = [sub EXCEPT ![p] = Tail(@)]
  /\ UNCHANGED <<file, pc, ret, wid, dest>>
  /\ UNCHANGED storeVars
  /\ UNCHANGED callVars

\* addTask: GET completedKey
CmdCompletedGet(p) ==
  /\ Running(p, "completed_get")
  /\ ret' = [ret EXCEPT ![p] = Exists(completed[dest[p]])]
  /\ sub' = [sub EXCEPT ![p] = Tail(@)]
  /\ UNCHANGED <<file, pc, wid, dest>>
  /\ UNCHANGED storeVars
  /\ UNCHANGED callVars

\* downloadFile: GET skip-download-2:{outputFilePath}
CmdSkipGet(p) ==
  /\ Running(p, "skip_get")
  /\ ret' = [ret EXCEPT ![p] = Exists(skip[dest[p]])]
  /\ sub' = [sub EXCEPT ![p] = Tail(@)]
  /\ UNCHANGED <<file, pc, wid, dest>>
  /\ UNCHANGED storeVars
  /\ UNCHANGED callVars

\* downloadFile timeout: SET skip-download-2:{outputFilePath} "true" {expiration: skipCacheTTL}.
\* The option object names none of SET's expiry options (EX, PX, EXAT, PXAT): the client
\* either ignores it and stores the key without TTL, or refuses the malformed option
\* and the await throws inside the timer callback, outside every try and promise.
CmdSkipSet(p) ==
  /\ Running(p, "skip_set")
  /\ \/ /\ skip' = [skip EXCEPT ![dest[p]] = Entry(<<"true">>, 0)]
        /\ sub' = [sub EXCEPT ![p] = Tail(@)]
        /\ pc' = pc
     \/ /\ pc' = [pc EXCEPT ![p] = "crashed"]
        /\ sub' = [sub EXCEPT ![p] = <<>>]
        /\ skip' = skip
  /\ UNCHANGED <<lock, inProgress, completed, failed, file, ret, wid, dest>>
  /\ UNCHANGED callVars

----------------------------------------------------------------------------
(* Redis key expiry: a key set with a TTL disappears when the TTL has elapsed *)

ExpireLock(k) ==
  /\ Exists(lock[k])
  /\ lock[k].ex > 0
  /\ lock' = [lock EXCEPT ![k] = Expired]
  /\ UNCHANGED <<inProgress, completed, failed, skip, file, pc, sub, ret, wid, dest>>
  /\ UNCHANGED callVars

ExpireCompleted(k) ==
  /\ Exists(completed[k])
  /\ completed[k].ex > 0
  /\ completed' = [completed EXCEPT ![k] = Expired]
  /\ UNCHANGED <<lock, inProgress, failed, skip, file, pc, sub, ret, wid, dest>>
  /\ UNCHANGED callVars

----------------------------------------------------------------------------
(* ProxyDownloader.downloadFile *)

Min(a, b) == IF a < b THEN a ELSE b

\* lines 236-244, the .then handler: markCompleted(taskId, {fileSize, downloadedByProxy}),
\* releaseLock(taskId, proxyId), successCount++, return result
ThenCmds(p) == MarkCompletedCmds(<<"downloadedByProxy">>) \o ReleaseLockCmds

\* the promise of the innermost frame resolves with r
Resolve(p, before, r) ==
  /\ res' = [res EXCEPT ![p] = r]
  /\ sub' = [sub EXCEPT ![p] = before \o ThenCmds(p)]
  /\ pc' = [pc EXCEPT ![p] = "then_return"]

\* lines 246-257, the .catch handler of the frame f: retry after the backoff delay, or markFailed
CatchHandler(p, f, e) ==
  /\ err' = [err EXCEPT ![p] = e]
  /\ IF f.ac < MaxRetries
       THEN /\ pc' = [pc EXCEPT ![p] = "backoff"]
            /\ sub' = sub
       ELSE /\ pc' = [pc EXCEPT ![p] = "catch_throw"]
            /\ sub' = [sub EXCEPT ![p] = MarkFailedCmds(e)]

\* lines 92-99: fs.existsSync(outputFilePath); markCompleted and resolve({cached}) or read the skip marker
DF_Start(p) ==
  /\ At(p, "start")
  /\ IF file[dest[p]]
       THEN Resolve(p, MarkCompletedCmds(<<"alreadyExisted">>), "cached")
       ELSE /\ sub' = [sub EXCEPT ![p] = <<Cmd("skip_get")>>]
            /\ pc' = [pc EXCEPT ![p] = "skip_checked"]
            /\ res' = res
  /\ UNCHANGED <<file, ret, wid, dest, frames, err, attempts, xfer, obs, audit, orchVars, gateVars, restVars>>
  /\ UNCHANGED storeVars

\* the skip branch left out: the marker is read and acquireLock follows regardless
DF_SkipChecked_NoSkip(p) ==
  /\ At(p, "skip_checked")
  /\ sub' = [sub EXCEPT ![p] = <<Cmd("lock_setnx")>>]
  /\ pc' = [pc EXCEPT ![p] = "lock_checked"]
  /\ ret' = [ret EXCEPT ![p] = FALSE]
  /\ UNCHANGED <<file, wid, dest, frames, res, err, attempts, xfer, obs, audit, orchVars, gateVars, restVars>>
  /\ UNCHANGED storeVars

\* lines 100-107: skip marker found -> markCompleted and resolve({skipped}), else acquireLock
DF_SkipChecked(p) ==
  /\ At(p, "skip_checked")
  /\ IF ret[p]
       THEN Resolve(p, MarkCompletedCmds(<<"skippedInRedis">>), "skipped")
       ELSE /\ sub' = [sub EXCEPT ![p] = <<Cmd("lock_setnx")>>]
            /\ pc' = [pc EXCEPT ![p] = "lock_checked"]
            /\ res' = res
  /\ ret' = [ret EXCEPT ![p] = FALSE]
  /\ UNCHANGED <<file, wid, dest, frames, err, attempts, xfer, obs, audit, orchVars, gateVars, restVars>>
  /\ UNCHANGED storeVars

\* lines 108-115: lock refused -> getInProgressProxy and resolve({lockedByOther}), else markInProgress
DF_LockChecked(p) ==
  /\ At(p, "lock_checked")
  /\ IF ret[p]
       THEN /\ sub' = [sub EXCEPT ![p] = <<Cmd("inprogress_set")>>]
            /\ pc' = [pc EXCEPT ![p] = "marked"]
            /\ res' = res
       ELSE Resolve(p, <<Cmd("inprogress_get")>>, "lockedByOther")
  /\ ret' = [ret EXCEPT ![p] = FALSE]
  /\ UNCHANGED <<file, wid, dest, frames, err, attempts, xfer, obs, audit, orchVars, gateVars, restVars>>
  /\ UNCHANGED storeVars

\* lines 118-126: redirect limit, then https.get(url, {agent})
DF_Marked(p) ==
  /\ At(p, "marked")
  /\ IF Top(p).rc > MaxRedirects
       THEN /\ CatchHandler(p, Top(p), "TooManyRedirects")
            /\ UNCHANGED <<attempts, xfer, obs, audit, orchVars, gateVars, restVars>>
       ELSE /\ pc' = [pc EXCEPT ![p] = "requested"]
            /\ attempts' = [attempts EXCEPT ![p] =
                 IF audit /\ ~Top(p).hop THEN Min(@ + 1, MaxRetries + 2) ELSE @]
            /\ UNCHANGED <<sub, err, xfer, obs, audit, orchVars, gateVars, restVars>>
  /\ UNCHANGED <<file, ret, wid, dest, frames, res>>
  /\ UNCHANGED storeVars

\* how the end of a transfer is recorded
XferFailed(p) == [xfer EXCEPT ![p] = IF audit /\ @ # "other" THEN "failed" ELSE @]
XferOther(p) == [xfer EXCEPT ![p] = IF audit THEN "other" ELSE @]

\* line 228: request.on("error") before any response
DF_RequestError(p) ==
  /\ At(p, "requested")
  /\ CatchHandler(p, Top(p), "TransportError")
  /\ obs' = Seen(p, "error")
  /\ xfer' = XferFailed(p)
  /\ UNCHANGED <<file, ret, wid, dest, frames, res, attempts, audit, orchVars, gateVars, restVars>>
  /\ UNCHANGED storeVars

\* lines 128-144: 3xx with a location header -> downloadFile(.., redirectCount + 1, attemptCount)
DF_Redirect(p) ==
  /\ At(p, "requested")
  /\ frames' = [frames EXCEPT ![p] =
       Append(@, [rc |-> Top(p).rc + 1, ac |-> Top(p).ac, hop |-> audit])]
  /\ pc' = [pc EXCEPT ![p] = "start"]
  /\ obs' = Seen(p, "3xx")
  /\ xfer' = XferOther(p)
  /\ UNCHANGED <<file, sub, ret, wid, dest, res, err, attempts, audit, orchVars, gateVars, restVars>>
  /\ UNCHANGED storeVars

\* lines 147-151: throw inside the response callback, outside every try and promise
DF_BadStatus(p) ==
  /\ At(p, "requested")
  /\ pc' = [pc EXCEPT ![p] = "crashed"]
  /\ err' = [err EXCEPT ![p] = "HttpStatus"]
  /\ obs' = Seen(p, "status")
  /\ xfer' = XferFailed(p)
  /\ UNCHANGED <<file, sub, ret, wid, dest, frames, res, attempts, audit, orchVars, gateVars, restVars>>
  /\ UNCHANGED storeVars

\* lines 154-182: 200/304 -> arm the timeout, createWriteStream, pipe
DF_Response200(p) ==
  /\ At(p, "requested")
  /\ file' = [file EXCEPT ![dest[p]] = TRUE]
  /\ pc' = [pc EXCEPT ![p] = "receiving"]
  /\ UNCHANGED <<sub, ret, wid, dest>>
  /\ UNCHANGED storeVars
  /\ UNCHANGED callVars

\* lines 185-196: fileStream "finish" -> resolve({success: true, fileSize})
DF_Finish(p) ==
  /\ At(p, "receiving")
  /\ Resolve(p, <<>>, "downloaded")
  /\ obs' = Seen(p, "200")
  /\ xfer' = XferOther(p)
  /\ UNCHANGED <<file, ret, wid, dest, frames, err, attempts, audit, orchVars, gateVars, restVars>>
  /\ UNCHANGED storeVars

\* lines 199-224: request or file stream error while receiving -> unlink, reject
DF_StreamError(p) ==
  /\ At(p, "receiving")
  /\ file' = [file EXCEPT ![dest[p]] = FALSE]
  /\ CatchHandler(p, Top(p), "TransportError")
  /\ obs' = Seen(p, "error")
  /\ xfer' = XferFailed(p)
  /\ UNCHANGED <<ret, wid, dest, frames, res, attempts, audit, orchVars, gateVars, restVars>>
  /\ UNCHANGED storeVars

\* lines 154-168: the deadline fires: unlink, set the skip marker, releaseLock
DF_Timeout(p) ==
  /\ At(p, "receiving")
  /\ file' = [file EXCEPT ![dest[p]] = FALSE]
  /\ sub' = [sub EXCEPT ![p] = <<Cmd("skip_set")>> \o ReleaseLockCmds]
  /\ pc' = [pc EXCEPT ![p] = "timeout_reject"]
  /\ UNCHANGED <<ret, wid, dest>>
  /\ UNCHANGED storeVars
  /\ UNCHANGED callVars

\* line 169: reject(new Error("Download timeout"))
DF_TimeoutReject(p) ==
  /\ At(p, "timeout_reject")
  /\ CatchHandler(p, Top(p), "DownloadTimeout")
  /\ obs' = Seen(p, "timeout")
  /\ xfer' = XferFailed(p)
  /\ ret' = [ret EXCEPT ![p] = FALSE]
  /\ UNCHANGED <<file, wid, dest, frames, res, attempts, audit, orchVars, gateVars, restVars>>
  /\ UNCHANGED storeVars

\* lines 252-253: the delay elapsed -> downloadFile(attachment, redirectCount, attemptCount + 1)
DF_Backoff(p) ==
  /\ At(p, "backoff")
  /\ frames' = [frames EXCEPT ![p] =
       [@ EXCEPT ![Len(@)] = [rc |-> @.rc, ac |-> @.ac + 1, hop |-> FALSE]]]
  /\ pc' = [pc EXCEPT ![p] = "start"]
  /\ err' = [err EXCEPT ![p] = "none"]
  /\ UNCHANGED <<file, sub, ret, wid, dest, res, attempts, xfer, obs, audit, orchVars, gateVars, restVars>>
  /\ UNCHANGED storeVars

\* lines 243-244: successCount++, return result; lines 142 and 236 in the calling frame
DF_ThenReturn(p) ==
  /\ At(p, "then_return")
  /\ IF Len(frames[p]) > 1
       THEN /\ frames' = [frames EXCEPT ![p] = SubSeq(@, 1, Len(@) - 1)]
            /\ Resolve(p, <<>>, res[p])
       ELSE /\ pc' = [pc EXCEPT ![p] = "done"]
            /\ UNCHANGED <<frames, sub, res>>
  /\ obs' = SuccessCounted(p)
  /\ ret' = [ret EXCEPT ![p] = FALSE]
  /\ UNCHANGED <<file, wid, dest, err, attempts, xfer, audit, orchVars, gateVars, restVars>>
  /\ UNCHANGED storeVars

\* lines 258-262: failureCount++, throw error; lines 143 and 246 in the calling frame
DF_CatchThrow(p) ==
  /\ At(p, "catch_throw")
  /\ IF Len(frames[p]) > 1
       THEN /\ frames' = [frames EXCEPT ![p] = SubSeq(@, 1, Len(@) - 1)]
            /\ CatchHandler(p, frames[p][Len(frames[p]) - 1], err[p])
       ELSE /\ pc' = [pc EXCEPT ![p] = "done"]
            /\ UNCHANGED <<frames, sub, err>>
  /\ ret' = [ret EXCEPT ![p] = FALSE]
  /\ UNCHANGED <<file, wid, dest, res, attempts, xfer, obs, audit, orchVars, gateVars, restVars>>
  /\ UNCHANGED storeVars

----------------------------------------------------------------------------
\* a failed store command that is logged and then treated as if it had succeeded
StoreFail_Swallowed(p) ==
  /\ sub[p] # <<>>
  /\ Head(sub[p]).op \in {"skip_get", "lock_setnx", "inprogress_set"}
  /\ err' = [err EXCEPT ![p] = "StoreError"]
  /\ sub' = [sub EXCEPT ![p] = Tail(@)]
  /\ ret' = [ret EXCEPT ![p] = Head(sub[p]).op = "lock_setnx"]
  /\ UNCHANGED <<file, pc, wid, dest, frames, res, attempts, xfer, obs, audit, orchVars, gateVars, restVars>>
  /\ UNCHANGED storeVars

\* lines 99, 107, 115 inside the executor's try: the awaited redis command rejects;
\* lines 232-234 reject(error), then the .catch handler of lines 246-263
StoreFail(p) ==
  /\ sub[p] # <<>>
  /\ Head(sub[p]).op \in {"skip_get", "lock_setnx", "inprogress_set"}
  /\ err' = [err EXCEPT ![p] = "StoreError"]
  /\ IF Top(p).ac < MaxRetries
       THEN /\ pc' = [pc EXCEPT ![p] = "backoff"]
            /\ sub' = [sub EXCEPT ![p] = <<>>]
       ELSE /\ pc' = [pc EXCEPT ![p] = "catch_throw"]
            /\ sub' = [sub EXCEPT ![p] = MarkFailedCmds("StoreError")]
  /\ ret' = [ret EXCEPT ![p] = FALSE]
  /\ UNCHANGED <<file, wid, dest, frames, res, attempts, xfer, obs, audit, orchVars, gateVars, restVars>>
  /\ UNCHANGED storeVars

----
(* Entry points of proxy-orchestrator.js *)

NewCall(p, k) ==
  /\ dest' = [dest EXCEPT ![p] = k]
  /\ frames' = [frames EXCEPT ![p] = <<[rc |-> 0, ac |-> 0, hop |-> FALSE]>>]
  /\ res' = [res EXCEPT ![p] = "none"]
  /\ err' = [err EXCEPT ![p] = "none"]
  /\ attempts' = [attempts EXCEPT ![p] = 0]
  /\ xfer' = [xfer EXCEPT ![p] = "none"]
  /\ obs' = [obs EXCEPT ![p] = NoObs]
  /\ audit' = audit
  /\ UNCHANGED <<orchVars, gateVars, restVars>>

\* downloadFileWithProxy: selectProxyDownloader(), downloader.downloadFile(attachment)
SubmitOne(p, w, k) ==
  /\ pc[p] \in {"idle", "done"}
  /\ NewCall(p, k)
  /\ wid' = [wid EXCEPT ![p] = w]
  /\ pc' = [pc EXCEPT ![p] = "start"]
  /\ UNCHANGED <<file, sub, ret>>
  /\ UNCHANGED storeVars

\* downloadPostBatch lines 293-299: taskQueue.addTask(attachment)
SubmitBatch(p, k) ==
  /\ pc[p] \in {"idle", "done"}
  /\ NewCall(p, k)
  /\ sub' = [sub EXCEPT ![p] = <<Cmd("completed_get")>>]
  /\ pc' = [pc EXCEPT ![p] = "added"]
  /\ UNCHANGED <<file, ret, wid>>
  /\ UNCHANGED storeVars

\* processTaskQueueForPost lines 355-368: every attachment is handed to a downloader
BatchDownload(p, w) ==
  /\ At(p, "added")
  /\ wid' = [wid EXCEPT ![p] = w]
  /\ pc' = [pc EXCEPT ![p] = "start"]
  /\ ret' = [ret EXCEPT ![p] = FALSE]
  /\ UNCHANGED <<file, sub, dest>>
  /\ UNCHANGED storeVars
  /\ UNCHANGED callVars

----------------------------------------------------------------------------
StoreStep(p) ==
  \/ CmdLockSetNX(p)
  \/ CmdLockGet(p)
  \/ CmdLockDel(p)
  \/ CmdMarkCompleted(p)
  \/ CmdFailedSet(p)
  \/ CmdInProgressDelF(p)
  \/ CmdInProgressSet(p)
  \/ CmdInProgressGet(p)
  \/ CmdSkipGet(p)
  \/ CmdSkipSet(p)

DownloadStep(p) ==
  \/ DF_Start(p)
  \/ DF_SkipChecked(p)
  \/ DF_LockChecked(p)
  \/ DF_Marked(p)
  \/ DF_RequestError(p)
  \/ DF_Redirect(p)
  \/ DF_BadStatus(p)
  \/ DF_Response200(p)
  \/ DF_Finish(p)
  \/ DF_StreamError(p)
  \/ DF_Timeout(p)
  \/ DF_TimeoutReject(p)
  \/ DF_Backoff(p)
  \/ DF_ThenReturn(p)
  \/ DF_CatchThrow(p)

SubmitStep(p) ==
  \/ \E w \in Downloaders, k \in Paths : SubmitOne(p, w, k)
  \/ \E k \in Paths : SubmitBatch(p, k)
  \/ CmdCompletedGet(p)
  \/ \E w \in Downloaders : BatchDownload(p, w)

ExpireStep ==
  \/ \E k \in Paths : ExpireLock(k)
  \/ \E k \in Paths : ExpireCompleted(k)

(* Submissions by any downloader, in runs shorter than every TTL *)
Next == \E p \in Procs : SubmitStep(p) \/ DownloadStep(p) \/ StoreStep(p)

Spec == Init /\ [][Next]_vars

(* One submission slot, with key expiry; transfers are counted *)
InitSolo == Fresh /\ audit = TRUE

NextSolo == SubmitStep(1) \/ DownloadStep(1) \/ StoreStep(1) \/ ExpireStep

SpecSolo == InitSolo /\ [][NextSolo]_vars

(* One submission, followed from its call to its end, with key expiry *)
InitOnce ==
  /\ EmptyStore
  /\ audit = TRUE
  /\ file \in {f \in [Paths -> BOOLEAN] : \A k \in Paths : f[k] => k = 1}
  /\ pc = [p \in Slots |-> IF p = 1 THEN "start" ELSE "idle"]
  /\ sub = [p \in Slots |-> <<>>]
  /\ ret = [p \in Slots |-> FALSE]
  /\ wid = [p \in Slots |-> ProxyA]
  /\ dest = [p \in Slots |-> 1]
  /\ frames = [p \in Slots |->
       IF p = 1 THEN <<[rc |-> 0, ac |-> 0, hop |-> FALSE]>> ELSE <<>>]
  /\ res = [p \in Slots |-> "none"]
  /\ err = [p \in Slots |-> "none"]
  /\ attempts = [p \in Slots |-> 0]
  /\ xfer = [p \in Slots |-> "none"]
  /\ obs = [p \in Slots |-> NoObs]
  /\ OrchFresh

NextOnce == DownloadStep(1) \/ StoreStep(1) \/ ExpireStep

SpecOnce == InitOnce /\ [][NextOnce]_vars

(* downloadFileWithProxy: the legacy downloadFile of proxy-orchestrator.js lines
   495-571 after the download through the orchestrator was rejected *)

\* lines 595-600 and 500-502: the catch block calls downloadFile(attachment);
\* existsSync, then the skip marker is read
Fallback(p) ==
  /\ At(p, "done")
  /\ res[p] = "none"
  /\ err[p] # "none"
  /\ IF file[dest[p]]
       THEN /\ pc' = [pc EXCEPT ![p] = "returned"]
            /\ res' = [res EXCEPT ![p] = "fallback"]
            /\ sub' = sub
       ELSE /\ pc' = [pc EXCEPT ![p] = "legacy_skip"]
            /\ sub' = [sub EXCEPT ![p] = <<Cmd("skip_get")>>]
            /\ res' = res
  /\ UNCHANGED <<file, ret, wid, dest, frames, err, attempts, xfer, obs, audit, orchVars, gateVars, restVars>>
  /\ UNCHANGED storeVars

\* lines 503-509: reject("File skipped") for a marker, else https.get(url)
LegacyRequest(p) ==
  /\ At(p, "legacy_skip")
  /\ pc' = [pc EXCEPT ![p] = IF ret[p] THEN "failed" ELSE "legacy_requested"]
  /\ ret' = [ret EXCEPT ![p] = FALSE]
  /\ UNCHANGED <<file, sub, wid, dest>>
  /\ UNCHANGED storeVars
  /\ UNCHANGED callVars

\* lines 509-569 and 601-606: the response was written to the file and the call
\* returns {success, fallback}; or an error or a status other than 200 rejects and
\* "Download failed" is thrown; or the timeout of line 537 deletes the file, sets the
\* skip marker and rejects
LegacySettled(p, how) ==
  /\ At(p, "legacy_requested")
  /\ file' = [file EXCEPT ![dest[p]] = (how = "finish")]
  /\ pc' = [pc EXCEPT ![p] = IF how = "finish" THEN "returned" ELSE "failed"]
  /\ res' = [res EXCEPT ![p] = IF how = "finish" THEN "fallback" ELSE @]
  /\ sub' = [sub EXCEPT ![p] = IF how = "timeout" THEN <<Cmd("skip_set")>> ELSE @]
  /\ UNCHANGED <<ret, wid, dest, frames, err, attempts, xfer, obs, audit, orchVars, gateVars, restVars>>
  /\ UNCHANGED storeVars

(* One downloadFileWithProxy call, followed from its downloadFile call on the
   downloader to its end; a store command of the downloader may fail, no key
   expires *)
NextSubmit ==
  \/ DownloadStep(1)
  \/ StoreStep(1)
  \/ ~At(1, "legacy_skip") /\ StoreFail(1)
  \/ Fallback(1)
  \/ LegacyRequest(1)
  \/ \E how \in {"finish", "error", "timeout"} : LegacySettled(1, how)

SpecSubmit == InitOnce /\ [][NextSubmit]_vars

(* The same, with store commands before the transfer that may fail *)
NextStore == NextOnce \/ StoreFail(1)

SpecStore == InitOnce /\ [][NextStore]_vars

(* Two downloaders submit the same absent destination at the same instant *)
InitRace ==
  /\ EmptyStore
  /\ audit = TRUE
  /\ file = [k \in Paths |-> FALSE]
  /\ pc = [p \in Slots |-> IF p \in {1, 2} THEN "start" ELSE "idle"]
  /\ sub = [p \in Slots |-> <<>>]
  /\ ret = [p \in Slots |-> FALSE]
  /\ wid = [p \in Slots |-> IF p = 2 THEN ProxyA ELSE Localhost]
  /\ dest = [p \in Slots |-> 1]
  /\ frames = [p \in Slots |->
       IF p \in {1, 2} THEN <<[rc |-> 0, ac |-> 0, hop |-> FALSE]>> ELSE <<>>]
  /\ res = [p \in Slots |-> "none"]
  /\ err = [p \in Slots |-> "none"]
  /\ attempts = [p \in Slots |-> 0]
  /\ xfer = [p \in Slots |-> "none"]
  /\ obs = [p \in Slots |-> NoObs]
  /\ OrchFresh

NextRace == \E p \in {1, 2} : DownloadStep(p) \/ StoreStep(p)

SpecRace == InitRace /\ [][NextRace]_vars

----------------------------------------------------------------------------
(* Callers of the TaskQueue methods, in any order and interleaving *)

Returned(c) == sub[c] = <<>> /\ pc[c] \in {"idle", "q_acquireLock", "q_releaseLock"}

Call(c, w, k, label, cmds) ==
  /\ Returned(c)
  /\ pc' = [pc EXCEPT ![c] = label]
  /\ sub' = [sub EXCEPT ![c] = cmds]
  /\ wid' = [wid EXCEPT ![c] = w]
  /\ dest' = [dest EXCEPT ![c] = k]
  /\ ret' = [ret EXCEPT ![c] = FALSE]
  /\ UNCHANGED file
  /\ UNCHANGED storeVars
  /\ UNCHANGED callVars

QAcquireLock(c, w, k) == Call(c, w, k, "q_acquireLock", <<Cmd("lock_setnx")>>)

QReleaseLock(c, w, k) == Call(c, w, k, "q_releaseLock", ReleaseLockCmds)

\* the worker a caller belongs to: the first two are the proxies whose ids share a prefix
WorkerOf(c) == IF c = 1 THEN ProxyA ELSE IF c = 2 THEN ProxyB ELSE Localhost

NextLock ==
  \/ \E c \in Clients, k \in Paths : QAcquireLock(c, WorkerOf(c), k)
  \/ \E c \in Clients, k \in Paths : QReleaseLock(c, WorkerOf(c), k)
  \/ \E c \in Clients : CmdLockSetNX(c)
  \/ \E c \in Clients : CmdLockGet(c)
  \/ \E c \in Clients : CmdLockDel(c)
  \/ \E k \in Paths : ExpireLock(k)

SpecLock == Init /\ [][NextLock]_vars

(* Redis removes a key once its TTL has elapsed *)
SpecLockLive == SpecLock /\ \A k \in Paths : WF_vars(ExpireLock(k))

----------------------------------------------------------------------------
(* ProxyOrchestrator: proxy health *)

\* recordProxyFailure with the unhealthy test written as > 3
StatusAfter_Late(st, n) ==
  IF n > FailureThreshold THEN Unhealthy ELSE IF n >= 1 THEN Degraded ELSE st

\* lines 226-232: the status that goes with the incremented failureCount
StatusAfter(st, n) ==
  IF n >= FailureThreshold THEN Unhealthy ELSE IF n >= 1 THEN Degraded ELSE st

\* lines 215-233
RecordProxyFailure(w) ==
  /\ w \in DOMAIN proxyHealth => proxyHealth[w].failureCount < MaxFailures
  /\ proxyHealth' =
       IF w \in DOMAIN proxyHealth
         THEN [proxyHealth EXCEPT ![w] =
                 [status |-> StatusAfter(@.status, @.failureCount + 1),
                  failureCount |-> @.failureCount + 1,
                  lastFailure |-> <<now>>]]
         ELSE proxyHealth
  /\ UNCHANGED <<downloaders, strategy, roundRobinIndex, now, selected, cands,
                 report, postTasks, streak>>
  /\ UNCHANGED <<storeVars, downloadVars, restVars, gateVars>>

\* line 244: Date.now() - (health.lastFailure?.timestamp || 0)
TimeSinceFailure(h) == now - (IF h.lastFailure = <<>> THEN 0 ELSE h.lastFailure[1])

\* attemptProxyRecovery with the test written as >=
CooldownElapsed_Inclusive(h) == TimeSinceFailure(h) >= RecoveryDelay

\* line 247
CooldownElapsed(h) == TimeSinceFailure(h) > RecoveryDelay

\* lines 240-252
AttemptProxyRecovery(w) ==
  /\ proxyHealth' =
       IF w \in DOMAIN proxyHealth /\ CooldownElapsed(proxyHealth[w])
         THEN [proxyHealth EXCEPT ![w] = [@ EXCEPT !.status = Healthy, !.failureCount = 0]]
         ELSE proxyHealth
  /\ UNCHANGED <<downloaders, strategy, roundRobinIndex, now, selected, cands,
                 report, postTasks, streak>>
  /\ UNCHANGED <<storeVars, downloadVars, restVars, gateVars>>

\* clock advances made since construction, each of one millisecond or of one recovery delay
TicksOf(t) == ((t - StartTime) \div RecoveryDelay) + ((t - StartTime) % RecoveryDelay)

\* time passes between two calls
Tick(d) ==
  /\ TicksOf(now) < MaxTicks
  /\ now' = now + d
  /\ UNCHANGED <<downloaders, proxyHealth, strategy, roundRobinIndex, selected, cands,
                 report, postTasks, streak>>
  /\ UNCHANGED <<storeVars, downloadVars, restVars, gateVars>>

TimeStep == \E d \in {1, RecoveryDelay} : Tick(d)

(* recordProxyFailure and attemptProxyRecovery called in any order, for any proxyId *)
NextHealth ==
  \/ \E w \in ProxyIds : RecordProxyFailure(w)
  \/ \E w \in ProxyIds : AttemptProxyRecovery(w)
  \/ TimeStep

SpecHealth == Init /\ [][NextHealth]_vars

----------------------------------------------------------------------------
(* ProxyOrchestrator: selection of a downloader *)

\* line 149
IsHealthy(d) == d \in DOMAIN proxyHealth /\ proxyHealth[d].status = Healthy

\* lines 147-150
HealthyDownloaders == SelectSeq(downloaders, IsHealthy)

\* selectProxyDownloader without the health filter
Candidates_NoFilter == downloaders

\* lines 152-157: the list handed to selectNextProxyByStrategy
Candidates == IF HealthyDownloaders = <<>> THEN downloaders ELSE HealthyDownloaders

\* lines 198-203: postLimit.pendingCount + attachmentLimit.pendingCount
PendingOf(d) == Len(postLimit[d].queue) + Len(attachmentLimit[d].queue)

\* the reduce callback with the comparison written as <=
Better_OrEqual(curr, prev) == PendingOf(curr) <= PendingOf(prev)

\* line 205: currPending < prevPending
Better(curr, prev) == PendingOf(curr) < PendingOf(prev)

\* lines 197-206: candidates.reduce without an initial value
RECURSIVE Reduce(_, _, _)
Reduce(c, i, prev) ==
  IF i > Len(c) THEN prev
  ELSE Reduce(c, i + 1, IF Better(c[i], prev) THEN c[i] ELSE prev)

SelectLoadBalanced(c) == Reduce(c, 2, c[1])

\* line 188
SelectRoundRobin(c) == c[(roundRobinIndex % Len(c)) + 1]

\* lines 166-182: <<>> for null
SelectNextProxyByStrategy(c) ==
  IF c = <<>> THEN <<>>
  ELSE IF strategy = RoundRobin THEN <<SelectRoundRobin(c)>>
  ELSE IF strategy = LoadBalanced THEN <<SelectLoadBalanced(c)>>
  ELSE <<c[1]>>

\* what a call of selectProxyDownloader does to the orchestrator
Selection ==
  /\ selected' = SelectNextProxyByStrategy(Candidates)
  /\ cands' = Candidates
  /\ roundRobinIndex' =
       IF Candidates # <<>> /\ strategy = RoundRobin
         THEN roundRobinIndex + 1 ELSE roundRobinIndex

\* lines 146-158, called for one file (downloadFileWithProxy) or by a user of the class
SelectProxyDownloader ==
  /\ roundRobinIndex < MaxSelections
  /\ Selection
  /\ UNCHANGED <<downloaders, proxyHealth, strategy, now, report, postTasks, streak>>
  /\ UNCHANGED <<storeVars, downloadVars, restVars, gateVars>>

\* lines 406-417: a copy of every entry of proxyHealth
GetProxyHealth ==
  /\ report' = proxyHealth
  /\ UNCHANGED <<downloaders, proxyHealth, strategy, roundRobinIndex, now, selected,
                 cands, postTasks, streak>>
  /\ UNCHANGED <<storeVars, downloadVars, restVars, gateVars>>

(* Failures are recorded and time passes; health is queried and downloaders are selected *)
NextQuery ==
  \/ \E w \in Downloaders : RecordProxyFailure(w)
  \/ TimeStep
  \/ SelectProxyDownloader
  \/ GetProxyHealth

SpecQuery == Init /\ [][NextQuery]_vars

\* the proxy lists initialize() may have been given
ProxyLists ==
  {<<>>, <<Localhost>>, <<ProxyA>>, <<Localhost, ProxyA>>, <<ProxyA, Localhost>>}

\* a post gate with n calls waiting: the gate is full
PostGateWith(n) ==
  IF n = 0 THEN IdlePostGate
  ELSE [queue |-> [i \in 1..n |-> PostLimit + i], active |-> 1..PostLimit]

\* an attachment gate with n calls of a downloadAttachmentBatch waiting: the gate is full
AttachmentGateWith(n) ==
  IF n = 0 THEN IdleAttachmentGate
  ELSE [queue |-> [i \in 1..n |-> 0],
        active |-> [o \in Owners |-> IF o = 0 THEN AttachmentLimit ELSE 0]]

(* selectProxyDownloader for every proxy list, strategy, health and load of the gates *)
InitSelect ==
  /\ Quiet
  /\ audit = FALSE
  /\ file = [k \in Paths |-> FALSE]
  /\ \E ds \in ProxyLists, st \in Strategies : Initialized(ds, st)
  /\ postLimit \in [Downloaders -> {PostGateWith(n) : n \in 0..MaxPending}]
  /\ attachmentLimit \in [Downloaders -> {AttachmentGateWith(n) : n \in 0..MaxPending}]

NextSelect ==
  \/ SelectProxyDownloader
  \/ \E w \in Downloaders : RecordProxyFailure(w)

SpecSelect == InitSelect /\ [][NextSelect]_vars

RECURSIVE Sum(_, _)
Sum(f, S) ==
  IF S = {} THEN 0
  ELSE LET x == CHOOSE y \in S : TRUE IN f[x] + Sum(f, S \ {x})

\* the sum of a sequence or function of numbers: the calls running behind an
\* attachment gate, the counters of all downloaders
Total(a) == Sum(a, DOMAIN a)

----------------------------------------------------------------------------
(* ProxyOrchestrator: initialize and shutdown *)

\* lines 81-121 for an orchestrator that is not initialized: one downloader is pushed
\* for every descriptor validateProxyConfig accepts, its health entry is set anew;
\* line 116 looks at all downloaders registered, those of earlier calls included
Construct ==
  LET valid == SelectSeq(proxiesConfig, ValidateProxyConfig)
      ids == [i \in 1..Len(valid) |-> GetProxyId(valid[i])]
      made == {ids[i] : i \in 1..Len(ids)}
  IN /\ Len(downloaders) + Len(valid) <= MaxWorkers
     /\ downloaders' = downloaders \o ids
     /\ proxies' = proxies \o valid
     /\ stats' = stats \o [i \in 1..Len(valid) |-> NoStats]
     /\ proxyHealth' = [id \in DOMAIN proxyHealth \cup made |->
          IF id \in made THEN NewHealth ELSE proxyHealth[id]]
     /\ isInitialized' = (downloaders' # <<>>)
     /\ logs' = logs \cup InitializeLines(proxiesConfig, Len(downloaders'))

\* initialize, lines 73-127; it throws when isInitialized is left false
Initialize ==
  /\ IF isInitialized
       THEN /\ logs' = logs \cup {Line("Orchestrator already initialized", <<>>, 0, <<>>)}
            /\ UNCHANGED <<downloaders, proxies, stats, proxyHealth, isInitialized>>
       ELSE Construct
  /\ UNCHANGED <<proxiesConfig, orchStats, localQueue, agentVars, retryVars>>
  /\ UNCHANGED <<strategy, roundRobinIndex, now, selected, cands, report, postTasks, streak>>
  /\ UNCHANGED <<storeVars, downloadVars, gateVars>>

\* a shutdown that also drops the posts being processed
Shutdown_Abort ==
  /\ localQueue' = <<>>
  /\ stats' = [i \in 1..Len(stats) |-> NoStats]
  /\ isInitialized' = FALSE
  /\ postTasks' = [u \in Units |-> NoPost]
  /\ UNCHANGED <<logs, proxiesConfig, proxies, orchStats, agentVars, retryVars>>
  /\ UNCHANGED <<downloaders, proxyHealth, strategy, roundRobinIndex, now, selected,
                 cands, report, streak>>
  /\ UNCHANGED <<gateVars, storeVars, downloadVars>>

\* shutdown, lines 422-435: clearQueue, resetStats of every downloader
Shutdown ==
  /\ localQueue' = <<>>
  /\ stats' = [i \in 1..Len(stats) |-> NoStats]
  /\ isInitialized' = FALSE
  /\ logs' = logs \cup {Line("Shutting down proxy orchestrator", <<>>, 0, <<>>),
                        Line("Proxy orchestrator shutdown complete", <<>>, 0, <<>>)}
  /\ UNCHANGED <<proxiesConfig, proxies, orchStats, agentVars, retryVars>>
  /\ UNCHANGED <<orchVars, gateVars, storeVars, downloadVars>>

----------------------------------------------------------------------------
(* ProxyOrchestrator.downloadPostBatch. The posts of a call are new posts: every
   attachment is a file no task was added for before, and a task is named by the
   rank of its addTask call. *)

\* lines 262-283: initialize() if need be; it throws with no downloader; then
\* posts.map(async (post) => ...) calls postProcessor(post) for every post
OrchDownloadPostBatch(n) ==
  /\ \A u \in Units : postTasks[u].st = "none"
  /\ orchStats.totalTasksAssigned < MaxAssigned
  /\ orchStats.totalTasksCompleted + orchStats.totalTasksFailed < MaxAssigned
  /\ IF isInitialized
       THEN UNCHANGED <<downloaders, proxies, stats, proxyHealth, isInitialized, logs>>
       ELSE Construct
  /\ postTasks' = [u \in Units |->
       IF u <= n /\ downloaders' # <<>>
         THEN [st |-> "expand", left |-> 0, w |-> <<>>, task |-> 0] ELSE postTasks[u]]
  /\ UNCHANGED <<proxiesConfig, orchStats, localQueue, agentVars, retryVars>>
  /\ UNCHANGED <<strategy, roundRobinIndex, now, selected, cands, report, streak>>
  /\ UNCHANGED <<storeVars, downloadVars, gateVars>>

\* lines 355-368: selectProxyDownloader(), downloader.downloadFile(attachment) for the
\* task t; k attachments are left
NextAttachment(u, k, t) ==
  /\ Selection
  /\ postTasks' = [postTasks EXCEPT ![u] =
       [st |-> "transfer", left |-> k, w |-> SelectNextProxyByStrategy(Candidates),
        task |-> t]]

\* lines 286-302: postProcessor returned n attachments (none also when it threw);
\* the addTask loop (part_009 lines 70-85), then processTaskQueueForPost up to its
\* first downloadFile
PostProcessed(u, n) ==
  /\ postTasks[u].st = "expand"
  /\ IF n = 0
       THEN /\ postTasks' = [postTasks EXCEPT ![u].st = "done"]
            /\ UNCHANGED <<selected, cands, roundRobinIndex>>
       ELSE NextAttachment(u, n, orchStats.totalTasksAssigned + 1)
  /\ localQueue' = localQueue \o [i \in 1..n |-> orchStats.totalTasksAssigned + i]
  /\ orchStats' = [orchStats EXCEPT !.totalTasksAssigned = @ + n]
  /\ UNCHANGED <<isInitialized, proxiesConfig, proxies, stats, logs, agentVars, retryVars>>
  /\ UNCHANGED <<downloaders, proxyHealth, strategy, now, report, streak>>
  /\ UNCHANGED <<storeVars, downloadVars, gateVars>>

\* the downloader object selectProxyDownloader returned with the id w: the first of
\* that id (every strategy but round-robin takes the earliest of equal candidates)
ObjectOf(w) == CHOOSE i \in 1..Len(downloaders) :
  downloaders[i] = w /\ \A j \in 1..(i - 1) : downloaders[j] # w

\* lines 368-376: downloadFile resolved (ok) or rejected: results.push, next attachment;
\* lines 304-312 after the last one. A resolved call ran the .then handler
\* (proxy-downloader.js lines 236-244: markCompleted, which filters the task out of
\* localQueue at part_009 line 164, successCount++); a rejected call ran markFailed
\* and failureCount++ (lines 257-258), and markFailed leaves localQueue as it is
FileSettled(u, ok) ==
  /\ postTasks[u].st = "transfer"
  /\ streak' = [streak EXCEPT ![postTasks[u].w[1]] =
       IF ok THEN 0 ELSE Min(@ + 1, FailureThreshold)]
  /\ stats' = [stats EXCEPT ![ObjectOf(postTasks[u].w[1])] =
       IF ok THEN [@ EXCEPT !.successCount = @ + 1]
       ELSE [@ EXCEPT !.failureCount = @ + 1]]
  /\ localQueue' =
       IF ok THEN SelectSeq(localQueue, LAMBDA t : t # postTasks[u].task) ELSE localQueue
  /\ IF postTasks[u].left = 1
       THEN /\ postTasks' = [postTasks EXCEPT ![u] =
                 [st |-> "done", left |-> 0, w |-> <<>>, task |-> 0]]
            /\ UNCHANGED <<selected, cands, roundRobinIndex>>
       ELSE NextAttachment(u, postTasks[u].left - 1, postTasks[u].task + 1)
  /\ UNCHANGED <<isInitialized, proxiesConfig, proxies, orchStats, logs, agentVars, retryVars>>
  /\ UNCHANGED <<downloaders, proxyHealth, strategy, now, report>>
  /\ UNCHANGED <<storeVars, downloadVars, gateVars>>

\* lines 325-342: every post settled; getStats() of every downloader is added to the
\* totals of the orchestrator, batchStats is returned
BatchReturned ==
  /\ \E u \in Units : postTasks[u].st = "done"
  /\ \A u \in Units : postTasks[u].st \in {"none", "done"}
  /\ orchStats' = [orchStats EXCEPT
       !.totalTasksCompleted = @ + Total([i \in 1..Len(stats) |-> stats[i].successCount]),
       !.totalTasksFailed = @ + Total([i \in 1..Len(stats) |-> stats[i].failureCount])]
  /\ postTasks' = [u \in Units |-> NoPost]
  /\ logs' = logs \cup {Line("Batch download completed", <<>>, 0, <<>>)}
  /\ UNCHANGED <<isInitialized, proxiesConfig, proxies, stats, localQueue, agentVars, retryVars>>
  /\ UNCHANGED <<downloaders, proxyHealth, strategy, roundRobinIndex, now, selected,
                 cands, report, streak>>
  /\ UNCHANGED <<storeVars, downloadVars, gateVars>>

(* One downloadPostBatch call, for one or two downloaders and every strategy *)
InitBatch ==
  /\ Quiet
  /\ audit = FALSE
  /\ file = [k \in Paths |-> FALSE]
  /\ \E ds \in {<<Localhost>>, <<Localhost, ProxyA>>}, st \in Strategies : Initialized(ds, st)
  /\ GatesIdle

NextBatch ==
  \/ \E n \in Units : OrchDownloadPostBatch(n)
  \/ \E u \in Units, n \in 0..BatchFiles : PostProcessed(u, n)
  \/ \E u \in Units, ok \in BOOLEAN : FileSettled(u, ok)
  \/ BatchReturned

SpecBatch == InitBatch /\ [][NextBatch]_vars

----------------------------------------------------------------------------
(* The life of one orchestrator: constructed, then initialize, downloadPostBatch and
   shutdown calls in any order, with the default strategy *)

\* descriptors PROXY_LIST may hold: direct, a proxy without and with credentials, and
\* descriptors without ip or without port
LifeDescriptors ==
  {Direct,
   Proxied(<<"h">>, <<"8", "0">>, <<>>, <<>>),
   Proxied(<<"h">>, <<"8", "0">>, <<"u">>, <<"p">>),
   Proxied(<<>>, <<"8", "0">>, <<"u">>, <<"p">>),
   Proxied(<<"h">>, <<>>, <<>>, <<>>)}

\* getProxiesConfig, lines 65-85: a non-empty array
Configs == UNION {[1..n -> LifeDescriptors] : n \in 1..MaxDescriptors}

\* ProxyOrchestrator constructor, lines 50-68, with PROXY_LIST = cfg
Constructed(cfg, st) ==
  /\ isInitialized = FALSE
  /\ proxiesConfig = cfg
  /\ proxies = <<>>
  /\ stats = <<>>
  /\ orchStats = NoOrchStats
  /\ localQueue = <<>>
  /\ logs = {}
  /\ retry = DefaultRetry
  /\ Unused
  /\ downloaders = <<>>
  /\ proxyHealth = <<>>
  /\ strategy = st
  /\ roundRobinIndex = 0
  /\ now = StartTime
  /\ selected = <<>>
  /\ cands = <<>>
  /\ report = <<>>
  /\ postTasks = [u \in Units |-> NoPost]
  /\ streak = [d \in Downloaders |-> 0]

(* initialize and shutdown calls for every PROXY_LIST; a downloadPostBatch call whose
   posts have no attachments may stand for initialize *)
InitStart ==
  /\ Quiet
  /\ audit = FALSE
  /\ file = [k \in Paths |-> FALSE]
  /\ \E cfg \in Configs : Constructed(cfg, LoadBalanced)
  /\ GatesIdle

NextStart ==
  \/ Initialize
  \/ Shutdown
  \/ \E n \in 1..LifePosts : OrchDownloadPostBatch(n)
  \/ \E u \in Units : PostProcessed(u, 0)
  \/ BatchReturned

SpecStart == InitStart /\ [][NextStart]_vars

(* batches with attachments between initialize and shutdown calls, for the default
   PROXY_LIST and for one that adds a proxy *)
InitLife ==
  /\ Quiet
  /\ audit = FALSE
  /\ file = [k \in Paths |-> FALSE]
  /\ \E cfg \in {<<Direct>>, <<Direct, Proxied(<<"h">>, <<"8", "0">>, <<>>, <<>>)>>} :
        Constructed(cfg, LoadBalanced)
  /\ GatesIdle

NextLife ==
  \/ Initialize
  \/ Shutdown
  \/ \E n \in 1..LifePosts : OrchDownloadPostBatch(n)
  \/ \E u \in Units, n \in 0..LifeFiles : PostProcessed(u, n)
  \/ \E u \in Units, ok \in BOOLEAN : FileSettled(u, ok)
  \/ BatchReturned

SpecLife == InitLife /\ [][NextLife]_vars

----------------------------------------------------------------------------
(* http-agent-factory: getHttpsAgent and clearAgentCache *)

\* an encoding that leaves every character as it is
EncodeURIComponent_Raw(str) == str

\* encodeURIComponent on the characters in use: ":", "@" and "%" are escaped
RECURSIVE EncodeURIComponent(_)
EncodeURIComponent(str) ==
  IF str = <<>> THEN <<>>
  ELSE (CASE Head(str) = ":" -> <<"%", "3", "A">>
          [] Head(str) = "@" -> <<"%", "4", "0">>
          [] Head(str) = "%" -> <<"%", "2", "5">>
          [] OTHER -> <<Head(str)>>) \o EncodeURIComponent(Tail(str))

\* buildProxyUrl, part_009 lines 322-332
BuildProxyUrl(proxy) ==
  <<"http://">>
  \o (IF proxy.username # <<>> /\ proxy.password # <<>>
        THEN EncodeURIComponent(proxy.username) \o <<":">>
             \o EncodeURIComponent(proxy.password) \o <<"@">>
        ELSE <<>>)
  \o proxy.ip \o <<":">> \o proxy.port

\* lines 279 and 298: the key the agent of a descriptor is cached under
CacheKey(proxy) == IF proxy.isLocalhost THEN <<"localhost-direct">> ELSE BuildProxyUrl(proxy)

\* getHttpsAgent, lines 276-314: the cached agent of the key, or a new agent that is
\* cached; the agent returned is recorded with the descriptor
GetHttpsAgent(proxy) ==
  /\ Cardinality(pooled) < MaxPooled
  /\ LET hit == {e \in agentCache : e.key = CacheKey(proxy)}
         agent == IF hit = {} THEN agentsMade + 1 ELSE (CHOOSE e \in hit : TRUE).agent
     IN /\ agentCache' = agentCache \cup {[key |-> CacheKey(proxy), agent |-> agent]}
        /\ agentsMade' = IF hit = {} THEN agentsMade + 1 ELSE agentsMade
        /\ pooled' = pooled \cup {[proxy |-> proxy, agent |-> agent]}
  /\ UNCHANGED <<destroyed, lifeVars, retryVars>>
  /\ UNCHANGED <<storeVars, downloadVars, orchVars, gateVars>>

\* clearAgentCache, lines 337-344: destroy() on every cached agent, agentCache.clear()
ClearAgentCache ==
  /\ destroyed' = destroyed \cup {e.agent : e \in agentCache}
  /\ agentCache' = {}
  /\ UNCHANGED <<agentsMade, pooled, lifeVars, retryVars>>
  /\ UNCHANGED <<storeVars, downloadVars, orchVars, gateVars>>

\* descriptors getHttpsAgent is called with: direct, a proxy endpoint with no,
\* partial or full credentials, some holding the separator of the proxy URL, and a
\* second endpoint whose port extends the port of the first
AgentDescriptors ==
  {Direct, Proxied(<<"h">>, <<"8", "0", "8", "0">>, <<>>, <<>>)} \cup
  {Proxied(<<"h">>, <<"8", "0">>, username, password) :
     username \in {<<>>, <<"u">>, <<"u", ":", "p">>},
     password \in {<<>>, <<"q">>, <<"p", ":", "q">>}}

NextAgent ==
  \/ \E proxy \in AgentDescriptors : GetHttpsAgent(proxy)
  \/ ClearAgentCache

SpecAgent == Init /\ [][NextAgent]_vars

----------------------------------------------------------------------------
(* ProxyDownloader.downloadFile: the delay before a retry, for one call whose
   attempts keep failing *)

\* Math.pow for a whole exponent
RECURSIVE Pow(_, _)
Pow(b, e) == IF e = 0 THEN 1 ELSE b * Pow(b, e - 1)

\* a delay that takes the exponent from the attempt that follows
RetryDelay_NextAttempt(a) == retry.retryBaseDelay * Pow(retry.retryBackoffMultiplier, a + 1)

\* line 249, in the .catch handler of the attempt a
RetryDelay(a) == retry.retryBaseDelay * Pow(retry.retryBackoffMultiplier, a)

\* lines 246-254: the attempt attemptCount failed and attemptCount < maxRetries: wait
\* for the delay, then downloadFile(attachment, redirectCount, attemptCount + 1)
RetryAfterFailure ==
  /\ attemptCount < retry.maxRetries
  /\ delay' = <<RetryDelay(attemptCount)>>
  /\ attemptCount' = attemptCount + 1
  /\ UNCHANGED <<retry, lifeVars, agentVars>>
  /\ UNCHANGED <<storeVars, downloadVars, orchVars, gateVars>>

\* getConcurrencyConfig, lines 37-43, for whole values of PROXY_MAX_RETRIES,
\* PROXY_RETRY_BACKOFF and PROXY_RETRY_BASE_DELAY, the defaults among them
RetryConfigs ==
  [maxRetries : 0..MaxRetriesConfig,
   retryBackoffMultiplier : {1, DefaultBackoff, 3},
   retryBaseDelay : {1, 250, 500, DefaultBaseDelay}]

\* ProxyDownloader constructor, lines 47-49, and the first downloadFile call of the
\* new downloader
NewDownloader(config) ==
  /\ retry' = config
  /\ attemptCount' = 0
  /\ delay' = <<>>
  /\ UNCHANGED <<lifeVars, agentVars>>
  /\ UNCHANGED <<storeVars, downloadVars, orchVars, gateVars>>

NextBackoff ==
  \/ \E config \in RetryConfigs : NewDownloader(config)
  \/ RetryAfterFailure

SpecBackoff == Init /\ [][NextBackoff]_vars

----------------------------------------------------------------------------
(* ProxyDownloader: downloadPostBatch and downloadAttachmentBatch behind the two gates.
   A gate is what pLimit(n) returns: a call is started at once while fewer than n
   calls are running, and waits in a first-in first-out queue otherwise; a call
   that ends starts the head of the queue. pendingCount is the queue's length. *)

\* calls of the owner o that an attachment gate has waiting or running
Outstanding(g, o) == g.active[o] + Cardinality({i \in 1..Len(g.queue) : g.queue[i] = o})

\* entries among the first k of the queue q that belong to o
Among(q, k, o) == Cardinality({i \in 1..k : q[i] = o})

\* line 40, pLimit(config.postLimit): start waiting calls while there is room
PostNext(g) ==
  LET k == Min(PostLimit - Cardinality(g.active), Len(g.queue))
  IN [queue |-> SubSeq(g.queue, k + 1, Len(g.queue)),
      active |-> g.active \cup {g.queue[i] : i \in 1..k}]

\* an attachment gate that starts every call it is given
AttachmentNext_Unbounded(g) ==
  [queue |-> <<>>,
   active |-> [o \in Owners |-> g.active[o] + Among(g.queue, Len(g.queue), o)]]

\* line 41, pLimit(config.attachmentLimit): start waiting calls while there is room
AttachmentNext(g) ==
  LET k == Min(AttachmentLimit - Total(g.active), Len(g.queue))
  IN [queue |-> SubSeq(g.queue, k + 1, Len(g.queue)),
      active |-> [o \in Owners |-> g.active[o] + Among(g.queue, k, o)]]

\* the post u of the downloader w has ended: lines 312-325, its slot goes to the next post
PostEnded(w, u) ==
  [postLimit EXCEPT ![w] = PostNext([@ EXCEPT !.active = @ \ {u}])]

\* downloadPostBatch lines 297-307: posts.map((post) => this.postLimit(...)), n posts
WorkerDownloadPostBatch(w, n) ==
  /\ postLimit[w] = IdlePostGate
  /\ postLimit' = [postLimit EXCEPT ![w] =
       PostNext([queue |-> [i \in 1..n |-> i], active |-> {}])]
  /\ UNCHANGED attachmentLimit
  /\ UNCHANGED <<storeVars, downloadVars, restVars, orchVars>>

\* lines 309-310 and 275-276: postProcessor returned n attachments (none also when it
\* threw), downloadAttachmentBatch hands each to this.attachmentLimit
WorkerPostProcessed(w, u, n) ==
  /\ u \in postLimit[w].active
  /\ Outstanding(attachmentLimit[w], u) = 0
  /\ IF n = 0
       THEN /\ postLimit' = PostEnded(w, u)
            /\ UNCHANGED attachmentLimit
       ELSE /\ attachmentLimit' = [attachmentLimit EXCEPT ![w] =
                 AttachmentNext([@ EXCEPT !.queue = @ \o [i \in 1..n |-> u]])]
            /\ UNCHANGED postLimit
  /\ UNCHANGED <<storeVars, downloadVars, restVars, orchVars>>

\* lines 277-282: a downloadFile of the owner o settled, resolved or rejected; lines
\* 286-287 and 312-321 when it was the last one of its batch
WorkerFileSettled(w, o) ==
  /\ attachmentLimit[w].active[o] > 0
  /\ LET g == AttachmentNext([attachmentLimit[w] EXCEPT !.active[o] = @ - 1])
     IN /\ attachmentLimit' = [attachmentLimit EXCEPT ![w] = g]
        /\ postLimit' = IF o # 0 /\ Outstanding(g, o) = 0 THEN PostEnded(w, o) ELSE postLimit
  /\ UNCHANGED <<storeVars, downloadVars, restVars, orchVars>>

\* downloadAttachmentBatch lines 272-284, called by a user of the class with n attachments
WorkerDownloadAttachmentBatch(w, n) ==
  /\ Outstanding(attachmentLimit[w], 0) = 0
  /\ attachmentLimit' = [attachmentLimit EXCEPT ![w] =
       AttachmentNext([@ EXCEPT !.queue = @ \o [i \in 1..n |-> 0]])]
  /\ UNCHANGED postLimit
  /\ UNCHANGED <<storeVars, downloadVars, restVars, orchVars>>

(* downloadPostBatch runs on the direct downloader, downloadAttachmentBatch calls run
   on every downloader, in any interleaving *)
NextGate ==
  \/ \E n \in Units : WorkerDownloadPostBatch(Localhost, n)
  \/ \E u \in Units, n \in 0..MaxAttachments : WorkerPostProcessed(Localhost, u, n)
  \/ \E w \in Downloaders, o \in Owners : WorkerFileSettled(w, o)
  \/ \E w \in Downloaders, n \in 1..MaxAttachments : WorkerDownloadAttachmentBatch(w, n)

SpecGate == Init /\ [][NextGate]_vars

----------------------------------------------------------------------------
(* Properties *)

\* the proxyId a lock value was written with
HolderOf(v) == CHOOSE w \in ProxyIds : \E q \in Slots : v = LockValue(w, q)

\* p takes a step of its own
Steps(p) == pc'[p] # pc[p] \/ sub'[p] # sub[p]

\* p's acquireLock command takes effect in this step
Acquires(p) == Running(p, "lock_setnx") /\ sub'[p] # sub[p]

\* p issues https.get in this step
IssuesTransfer(p) == pc[p] # "requested" /\ pc'[p] = "requested"

\* request issued, transfer not yet settled
InTransfer(p) == pc[p] \in {"requested", "receiving"}

\* C1: for every destination path, with no lock TTL expiring, at most one
\* downloadFile invocation at a time is in its HTTP-transfer phase.
C1_OneTransferPerPath ==
  \A k \in Paths : Cardinality({p \in Procs : InTransfer(p) /\ dest[p] = k}) <= 1

\* C2: an acquireLock returns true exactly when no unexpired lock exists for the
\* key, and a refused acquireLock leaves the lock record as it is: of any number of
\* calls at most one succeeds until the lock is released or expires.
C2_AcquireExclusive ==
  [][\A c \in Clients :
       Acquires(c) =>
         /\ ret'[c] = ~Exists(lock[dest[c]])
         /\ Exists(lock[dest[c]]) => lock' = lock
         /\ ~Exists(lock[dest[c]]) =>
              lock'[dest[c]] = Entry(LockValue(wid[c], c), LockTTL)]_vars

\* C2 witness: two callers raced for one key; one was granted, the other refused
C2_Witness ==
  \E c1, c2 \in Clients :
    /\ c1 # c2
    /\ pc[c1] = "q_acquireLock" /\ sub[c1] = <<>> /\ ret[c1]
    /\ pc[c2] = "q_acquireLock" /\ sub[c2] = <<>> /\ ~ret[c2]
    /\ dest[c1] = dest[c2]
    /\ wid[c1] # wid[c2]
    /\ Get(lock[dest[c1]]) = LockValue(wid[c1], c1)

\* C3: a step of a worker that is not the recorded holder of a lock leaves that
\* lock record in place.
C3_OnlyHolderRemovesLock ==
  [][\A p \in Procs :
       (/\ Steps(p)
        /\ Exists(lock[dest[p]])
        /\ HolderOf(lock[dest[p]].val) # wid[p])
       => lock'[dest[p]] = lock[dest[p]]]_vars

\* C4: a releaseLock issued by A goes on to delete, and deletes, only a lock
\* record that names A as its holder at that moment.
C4_ReleaseOnlyOwnLock ==
  [][\A c \in Clients :
       /\ (Running(c, "lock_get") /\ sub'[c] # sub[c] /\ Exists(lock[dest[c]])
            /\ HolderOf(lock[dest[c]].val) # wid[c])
          => (sub'[c] = <<>> /\ ret'[c] = FALSE)
       /\ (Running(c, "lock_del") /\ sub'[c] # sub[c] /\ Exists(lock[dest[c]]))
          => HolderOf(lock[dest[c]].val) = wid[c]]_vars

\* C5: while a completion record for a task key is present, no worker attempts
\* acquireLock or issues an HTTP transfer for that key.
C5_CompletedNeverRedownloaded ==
  [][\A p \in Procs :
       Exists(completed[dest[p]]) => ~(Acquires(p) \/ IssuesTransfer(p))]_vars

\* outcome of a finished top-level downloadFile call
Succeeded(p) == res[p] \in {"downloaded", "cached", "skipped"}
Rejected(p) == err[p] # "none" /\ res[p] = "none"
TurnedAway(p) == res[p] = "lockedByOther"

\* p did the transfer and got success or failure; q was turned away at once
RaceOutcome(p, q) ==
  /\ attempts[p] > 0
  /\ Succeeded(p) \/ Rejected(p)
  /\ attempts[q] = 0
  /\ TurnedAway(q)
  /\ frames[q] = <<[rc |-> 0, ac |-> 0, hop |-> FALSE]>>

\* C6: of two workers racing for one uncompleted task with no existing lock,
\* exactly one performs the transfer and gets success or failure; the other is
\* turned away with the locked-elsewhere outcome, without transfer or retry.
C6_RaceHasOneWinner ==
  /\ ~(attempts[1] > 0 /\ attempts[2] > 0)
  /\ (pc[1] = "done" /\ pc[2] = "done") => (RaceOutcome(1, 2) \/ RaceOutcome(2, 1))

\* C7: every lock record carries the finite TTL, a lock that is never released
\* goes away, and an acquireLock on an expired lock is granted.
C7_LockExpires ==
  /\ [](\A k \in Paths : Exists(lock[k]) => lock[k].ex = LockTTL)
  /\ \A k \in Paths : []<>(~Exists(lock[k]))
  /\ [][\A c \in Clients :
          (Acquires(c) /\ lock[dest[c]] = Expired) => ret'[c] = TRUE]_vars

\* C7 witness: A's lock, never released, has expired while a different worker
\* B is about to call acquireLock on the same key
C7_Witness ==
  \E a, b \in Clients :
    /\ a # b
    /\ pc[a] = "q_acquireLock" /\ sub[a] = <<>> /\ ret[a]
    /\ dest[a] = dest[b]
    /\ wid[a] # wid[b]
    /\ lock[dest[a]] = Expired
    /\ Running(b, "lock_setnx")

\* C8: one downloadFile submission issues at most MAX_RETRIES + 1 transfer
\* attempts, redirect hops not counted.
C8_AttemptsBounded ==
  \A p \in Procs : attempts[p] <= MaxRetries + 1

\* C9: a retry's acquireLock is granted when the lock on the key is the one the
\* same submission took for its earlier attempt.
C9_RetryNotBlockedByOwnLock ==
  [][\A p \in Procs :
       (/\ Acquires(p)
        /\ frames[p] # <<>>
        /\ Top(p).ac > 0
        /\ Exists(lock[dest[p]])
        /\ lock[dest[p]].val = LockValue(wid[p], p))
       => ret'[p] = TRUE]_vars

\* C10: a submission whose transfer attempts all failed writes no completion
\* record and ends rejected, with the failure record carrying the error and the
\* worker, and with its lock released.
C10_AllFailedEndsRejected ==
  /\ [](\A p \in Procs :
          (pc[p] = "done" /\ xfer[p] = "failed") =>
            /\ Rejected(p)
            /\ Get(failed[dest[p]]) = <<err[p]>> \o wid[p]
            /\ Get(lock[dest[p]]) # LockValue(wid[p], p))
  /\ [][\A p \in Procs :
          xfer[p] = "failed" =>
            ~(Running(p, "markCompleted") /\ sub'[p] # sub[p])]_vars

\* k redirects, k within the limit, and nothing after them
OnlyRedirects(c) ==
  /\ c # <<>>
  /\ Len(c) <= MaxRedirects
  /\ \A i \in 1..Len(c) : c[i] = "3xx"

\* k redirects, k within the limit, then a 200 response received to the end
RedirectsThen200(c) ==
  /\ c # <<>>
  /\ Len(c) <= MaxRedirects + 1
  /\ c[Len(c)] = "200"
  /\ \A i \in 1..(Len(c) - 1) : c[i] = "3xx"

\* C11: a submission that met k <= MAX_REDIRECTS redirects does not settle before
\* the final location has answered, and when that answer is a 200 its outcome is
\* the downloaded file with the success counter incremented exactly once.
C11_RedirectsFollowed ==
  \A p \in Procs :
    pc[p] = "done" =>
      /\ ~OnlyRedirects(obs[p].chain)
      /\ RedirectsThen200(obs[p].chain) =>
           (res[p] = "downloaded" /\ obs[p].succ = 1)

\* C12: exceeding MAX_REDIRECTS raises too-many-redirects without a further
\* request, and the retry that follows is a new attempt that can issue a request
\* again (its redirect count is back within the limit).
C12_TooManyRedirectsRetried ==
  [][\A p \in Procs :
       /\ (At(p, "marked") /\ Steps(p) /\ Top(p).rc > MaxRedirects)
          => (err'[p] = "TooManyRedirects" /\ pc'[p] \in {"backoff", "catch_throw"})
       /\ (At(p, "backoff") /\ Steps(p) /\ err[p] = "TooManyRedirects")
          => frames'[p][Len(frames'[p])].rc <= MaxRedirects]_vars

\* C13: when the deadline handler has run, the partial file is gone, the
\* skip-marker is stored with TTL SKIP_CACHE_TTL_S, and the worker's lock is
\* released before the attempt is rejected.
C13_TimeoutCleansUp ==
  \A p \in Procs :
    (pc[p] = "timeout_reject" /\ sub[p] = <<>>) =>
      /\ ~file[dest[p]]
      /\ Exists(skip[dest[p]])
      /\ skip[dest[p]].ex = SkipCacheTTL
      /\ Get(lock[dest[p]]) # LockValue(wid[p], p)

\* C14: an invocation that finds the skip-marker does not resolve with a
\* successful outcome, and the success counter stays as it is afterwards.
C14_SkipMarkerIsFailure ==
  [][\A p \in Procs :
       /\ (At(p, "skip_checked") /\ ret[p] /\ Steps(p)) => ~Succeeded(p)'
       /\ res[p] = "skipped" => obs'[p].succ = obs[p].succ]_vars

\* p's read of the skip-marker returns in this step
ReadsSkip(p) == Running(p, "skip_get") /\ sub'[p] # sub[p]

\* the invocation p is in has found the skip-marker
SawMarker(p) == res[p] = "skipped" \/ (At(p, "skip_checked") /\ ret[p])

C16_EveryResponseSettles ==
  \A p \in Procs : pc[p] # "crashed"

\* a store command of p fails in this step
StoreFails(p) == err[p] # "StoreError" /\ err'[p] = "StoreError"

\* C17: a request is issued only from the point reached when acquireLock returned
\* true and the in-progress write went through in the same attempt; a failed
\* store command before the transfer sends the attempt to the retry policy.
C17_NoTransferOnStoreFailure ==
  [][\A p \in Procs :
       /\ IssuesTransfer(p) => (At(p, "marked") /\ err[p] = "none")
       /\ (pc[p] # "marked" /\ pc'[p] = "marked") => (At(p, "lock_checked") /\ ret[p])
       /\ StoreFails(p) => pc'[p] \in {"backoff", "catch_throw"}]_vars

\* C17 witness: every attempt of a submission failed on a store command and the
\* submission ended rejected without a single request
C17_Witness ==
  \E p \in Procs :
    /\ pc[p] = "done"
    /\ err[p] = "StoreError"
    /\ res[p] = "none"
    /\ attempts[p] = 0
    /\ frames[p] = <<[rc |-> 0, ac |-> MaxRetries, hop |-> FALSE]>>

\* the promise of p's invocation has settled and its handler has finished
Settled(p) ==
  \/ pc[p] = "done"
  \/ pc[p] \in {"then_return", "catch_throw"} /\ sub[p] = <<>>

\* p's write of the task-completed or of the task-failed record happens in this step
WritesCompleted(p) == Running(p, "markCompleted") /\ sub'[p] # sub[p]
WritesFailed(p) == Running(p, "failed_set") /\ sub'[p] # sub[p]

\* C18: when an invocation has settled, the lock record of its key does not carry
\* its worker's value; after a download that succeeded the task-completed record
\* has been written and the lock is absent.
C18_SettledLeavesNoLock ==
  \A p \in Procs :
    /\ Settled(p) => Get(lock[dest[p]]) # LockValue(wid[p], p)
    /\ (pc[p] = "done" /\ res[p] = "downloaded") =>
         (completed[dest[p]].st # "none" /\ ~Exists(lock[dest[p]]))

\* C18 witness: a single worker downloaded an absent destination at the first
\* attempt; the completion record is there and the lock is gone
C18_Witness ==
  \E p \in Procs :
    /\ pc[p] = "done"
    /\ res[p] = "downloaded"
    /\ obs[p].chain = <<"200">>
    /\ attempts[p] = 1
    /\ Exists(completed[dest[p]])
    /\ lock[dest[p]] = NoKey

\* C19: the task-completed record of a key is written only while no unexpired
\* task-completed record exists for that key.
C19_CompletedWrittenOnce ==
  [][\A p \in Procs : WritesCompleted(p) => ~Exists(completed[dest[p]])]_vars

\* C20: a submission writes task-completed or task-failed only after it has
\* written the task-in-progress marker.
C20_InProgressFirst ==
  [][\A p \in Procs : (WritesCompleted(p) \/ WritesFailed(p)) => obs[p].mark]_vars

\* the submission of p found its destination on disk when it was made
FoundLocally(p) ==
  \/ res[p] = "cached"
  \/ At(p, "start") /\ frames[p] = <<[rc |-> 0, ac |-> 0, hop |-> FALSE]>> /\ file[dest[p]]

\* C21: a submission whose destination already exists locally is recorded as
\* skipped, not completed: the skip counter goes up by one, the success counter and
\* the task-completed record stay as they are, and no lock is acquired.
C21_ExistingIsSkipped ==
  [][\A p \in Procs :
       (FoundLocally(p) /\ Steps(p)) =>
         /\ completed' = completed
         /\ obs'[p].succ = obs[p].succ
         /\ ~Acquires(p)
         /\ pc'[p] = "done" => obs'[p].skipCount = 1]_vars

C23_RecoveryAfterCooldown ==
  [][\A w \in ProxyIds :
       AttemptProxyRecovery(w) =>
         /\ \A v \in DOMAIN proxyHealth \ {w} : proxyHealth'[v] = proxyHealth[v]
         /\ w \in DOMAIN proxyHealth =>
              IF /\ proxyHealth[w].lastFailure # <<>>
                 /\ now - proxyHealth[w].lastFailure[1] > RecoveryDelay
                THEN /\ proxyHealth'[w].status = Healthy
                     /\ proxyHealth'[w].failureCount = 0
                ELSE proxyHealth'[w] = proxyHealth[w]]_vars

\* C23 witness: a proxy whose last failure lies more than the delay back has been
\* reset, while one whose last failure lies exactly the delay back is still degraded
C23_Witness ==
  \E w, v \in DOMAIN proxyHealth :
    /\ proxyHealth[w].lastFailure # <<>>
    /\ now - proxyHealth[w].lastFailure[1] > RecoveryDelay
    /\ proxyHealth[w].status = Healthy
    /\ proxyHealth[w].failureCount = 0
    /\ proxyHealth[v].lastFailure # <<>>
    /\ now - proxyHealth[v].lastFailure[1] = RecoveryDelay
    /\ proxyHealth[v].status = Degraded

\* downloadFile calls the orchestrator has running on the downloader w
InFlight(w) == Cardinality({u \in Units : postTasks[u].st = "transfer" /\ postTasks[u].w = <<w>>})

\* C24: a downloader whose last three transfers, assigned by the orchestrator, were
\* all rejected is unhealthy, and the orchestrator assigns it no further transfer
\* while another downloader is healthy.
C24_ThreeFailuresUnhealthy ==
  /\ [](\A w \in DOMAIN proxyHealth :
          streak[w] >= FailureThreshold => proxyHealth[w].status = Unhealthy)
  /\ [][\A u \in Units, w \in DOMAIN proxyHealth :
          (/\ postTasks'[u] # postTasks[u]
           /\ postTasks'[u].w = <<w>>
           /\ streak'[w] >= FailureThreshold)
          => ~(\E v \in DOMAIN proxyHealth \ {w} : proxyHealth[v].status = Healthy)]_vars

\* the cooldown since the last recorded failure of the non-healthy proxy w has elapsed
Recoverable(w) ==
  /\ proxyHealth[w].status \in {Unhealthy, Degraded}
  /\ proxyHealth[w].lastFailure # <<>>
  /\ now - proxyHealth[w].lastFailure[1] > RecoveryDelay

\* C25: the recovery check is applied by every health query and every selection: a
\* non-healthy proxy whose cooldown has elapsed is reported healthy with counter 0
\* by getProxyHealth and is among the candidates of selectProxyDownloader.
C25_LazyRecovery ==
  [][/\ GetProxyHealth =>
          \A w \in DOMAIN proxyHealth :
            Recoverable(w) => (report'[w].status = Healthy /\ report'[w].failureCount = 0)
     /\ SelectProxyDownloader =>
          \A w \in DOMAIN proxyHealth :
            Recoverable(w) => \E i \in 1..Len(cands') : cands'[i] = w]_vars

C30_StrategyMatchesReference ==
  [][SelectProxyDownloader =>
       LET c == Candidates
           n == Len(Candidates)
       IN /\ c = <<>> => selected' = <<>>
          /\ (c # <<>> /\ strategy = FirstAvailable) => selected' = <<c[1]>>
          /\ (c # <<>> /\ strategy = RoundRobin) =>
               /\ selected' = <<c[(roundRobinIndex % n) + 1]>>
               /\ roundRobinIndex' = roundRobinIndex + 1
               /\ (n = 2 /\ cands = c) => selected' # selected
          /\ (c # <<>> /\ strategy = LoadBalanced) =>
               \E i \in 1..n :
                 /\ selected' = <<c[i]>>
                 /\ \A j \in 1..n :
                      /\ PendingOf(c[i]) <= PendingOf(c[j])
                      /\ j < i => PendingOf(c[j]) > PendingOf(c[i])]_vars

\* C30 witness: load-balanced returned the second of two candidates: as many calls
\* wait at the attachment gates of both, but the first has calls waiting at its post gate too
C30_Witness ==
  /\ strategy = LoadBalanced
  /\ Len(cands) = 2
  /\ selected = <<cands[2]>>
  /\ Len(attachmentLimit[cands[1]].queue) = Len(attachmentLimit[cands[2]].queue)
  /\ Len(attachmentLimit[cands[1]].queue) > 0
  /\ PendingOf(cands[2]) < PendingOf(cands[1])

\* C27: during downloadPostBatch the posts whose processing has started and has
\* not finished number at most POST_LIMIT times the number of downloaders.
C27_PostCeiling ==
  Cardinality({u \in Units : postTasks[u].st \in {"expand", "transfer"}})
    <= PostLimit * Len(downloaders)

\* C28: during downloadPostBatch no downloader has more than ATTACHMENT_LIMIT
\* downloadFile calls running at a time.
C28_FileCeilingPerWorker ==
  \A w \in Registered : InFlight(w) <= AttachmentLimit

ValidBySpec(d) == d.isLocalhost \/ (d.ip # <<>> /\ d.port # <<>>)

\* C31: an initialize call on an orchestrator that is not initialized registers
\* exactly one downloader per valid descriptor, in the order of the list, and none
\* for an invalid one; the health of each downloader it registers is healthy with
\* failureCount 0; with no valid descriptor it ends in an error and the orchestrator
\* stays uninitialized.
C31_InitializeRegistersValid ==
  [][(Initialize /\ ~isInitialized) =>
       LET valid == SelectSeq(proxiesConfig, ValidBySpec)
           old == Len(downloaders)
       IN /\ Len(downloaders') = old + Len(valid)
          /\ SubSeq(proxies', old + 1, Len(proxies')) = valid
          /\ \A j \in 1..Len(valid) :
               /\ downloaders'[old + j] =
                    (IF valid[j].isLocalhost THEN Localhost
                     ELSE valid[j].ip \o <<":">> \o valid[j].port)
               /\ proxyHealth'[downloaders'[old + j]].status = Healthy
               /\ proxyHealth'[downloaders'[old + j]].failureCount = 0
               /\ stats'[old + j] = [successCount |-> 0, failureCount |-> 0]
          /\ isInitialized' = (valid # <<>>)
          /\ valid = <<>> =>
               \E l \in logs' \ logs :
                 l.text = "Failed to initialize orchestrator: No valid proxy downloaders initialized"
     ]_vars

\* initialize registered one downloader for a list of two descriptors and skipped the other
C31_Witness ==
  /\ isInitialized
  /\ Len(proxiesConfig) = 2
  /\ Len(downloaders) = 1
  /\ \E i \in 1..2 : ~ValidBySpec(proxiesConfig[i]) /\ proxiesConfig[i].ip # <<>>
  /\ proxyHealth[downloaders[1]].status = Healthy

\* C32: shutdown empties localQueue and sets the counters of every downloader to
\* zero; the downloadFile calls that are running are left as they are, and each of
\* them can still settle afterwards.
C32_ShutdownLeavesTransfers ==
  /\ [][Shutdown =>
          /\ localQueue' = <<>>
          /\ Len(stats') = Len(downloaders)
          /\ \A i \in 1..Len(stats') :
               stats'[i].successCount = 0 /\ stats'[i].failureCount = 0
          /\ postTasks' = postTasks
          /\ UNCHANGED <<downloaders, proxyHealth, orchStats, storeVars, gateVars, pc, file>>
       ]_vars
  /\ [](\A u \in Units : postTasks[u].st = "transfer" =>
          ENABLED FileSettled(u, TRUE) /\ ENABLED FileSettled(u, FALSE))

\* a downloadFile call that was running when shutdown was called has resolved since
C32_Witness ==
  /\ ~isInitialized
  /\ localQueue = <<>>
  /\ orchStats.totalTasksAssigned = 1
  /\ \E u \in Units : postTasks[u].st = "done"
  /\ \E i \in 1..Len(stats) : stats[i].successCount = 1

\* C35: no line that was logged shows the username or the password of a descriptor:
\* every line is the same as with the credentials of its descriptor blanked.
C35_NoCredentialsLogged ==
  \A l \in logs : \A i \in 1..Len(l.shown) :
    l.shown[i].username = <<>> /\ l.shown[i].password = <<>>

\* C39: over initialize, downloadPostBatch and shutdown calls the orchestrator never
\* has more than one downloader per valid descriptor, and has exactly one per valid
\* descriptor whenever it is initialized.
C39_WorkerCountStable ==
  /\ Len(downloaders) <= Len(SelectSeq(proxiesConfig, ValidBySpec))
  /\ isInitialized => Len(downloaders) = Len(SelectSeq(proxiesConfig, ValidBySpec))

\* no downloadPostBatch call is running
NoBatch == \A u \in Units : postTasks[u].st = "none"

\* C36: under the load-balanced strategy with at least two healthy downloaders a
\* transfer is never assigned to a downloader that has more downloadFile calls
\* running than some other healthy downloader.
C36_LeastLoadedAssigned ==
  [][\A u \in Units, w \in Registered :
       (/\ strategy = LoadBalanced
        /\ Len(HealthyDownloaders) >= 2
        /\ postTasks'[u] # postTasks[u]
        /\ postTasks'[u].st = "transfer"
        /\ postTasks'[u].w = <<w>>)
       => \A v \in Registered :
            IsHealthy(v) =>
              InFlight(w) - (IF postTasks[u].w = <<w>> THEN 1 ELSE 0)
                <= InFlight(v) - (IF postTasks[u].w = <<v>> THEN 1 ELSE 0)]_vars

\* C37: once downloadPostBatch has returned, localQueue holds none of the tasks the
\* call added: with no call running the queue is as empty as before the first call.
C37_QueueDrained == NoBatch => localQueue = <<>>

\* C38: with no downloadPostBatch call running and no reset of the counters, the
\* totals of the orchestrator are the sums of the counters of its downloaders.
C38_TotalsAreSums ==
  NoBatch =>
    /\ orchStats.totalTasksCompleted = Total([i \in 1..Len(stats) |-> stats[i].successCount])
    /\ orchStats.totalTasksFailed = Total([i \in 1..Len(stats) |-> stats[i].failureCount])

\* the identity of a worker when every username and password field counts: direct,
\* or the proxy endpoint with whatever credential fields the descriptor has
IdentityByFields(d) == IF d.isLocalhost THEN Direct ELSE d

\* the identity of a worker when credentials are a username with a password: direct,
\* or the proxy endpoint with the pair, a descriptor that lacks either having none
IdentityByPair(d) ==
  IF d.isLocalhost THEN Direct
  ELSE IF d.username # <<>> /\ d.password # <<>> THEN d
  ELSE [d EXCEPT !.username = <<>>, !.password = <<>>]

\* C33 as stated: of the agents handed out and not disposed of since, two descriptors
\* of one identity got the same agent; two descriptors of different identities
\* (direct or proxied, endpoint, username, password) never got the same agent;
\* clearAgentCache disposes of every cached agent and empties the cache, and the
\* first getHttpsAgent after it returns an agent never handed out before.
C33_AnyCredentialFieldSeparates ==
  /\ [](\A r1 \in pooled, r2 \in pooled :
          (/\ r1.agent \notin destroyed
           /\ r2.agent \notin destroyed
           /\ IdentityByFields(r1.proxy) = IdentityByFields(r2.proxy))
          => r1.agent = r2.agent)
  /\ [](\A r1 \in pooled, r2 \in pooled :
          IdentityByFields(r1.proxy) # IdentityByFields(r2.proxy) => r1.agent # r2.agent)
  /\ [][ClearAgentCache =>
          agentCache' = {} /\ \A e \in agentCache : e.agent \in destroyed']_vars
  /\ [][(agentCache = {} /\ pooled' # pooled) =>
          \A r \in pooled' \ pooled : \A o \in pooled : o.agent # r.agent]_vars

\* C33, amended: the same, where the credentials of an identity are a username
\* together with a password, and a descriptor that lacks either has the identity of
\* its endpoint without credentials.
C33_OneAgentPerIdentity ==
  /\ [](\A r1 \in pooled, r2 \in pooled :
          (/\ r1.agent \notin destroyed
           /\ r2.agent \notin destroyed
           /\ IdentityByPair(r1.proxy) = IdentityByPair(r2.proxy))
          => r1.agent = r2.agent)
  /\ [](\A r1 \in pooled, r2 \in pooled :
          IdentityByPair(r1.proxy) # IdentityByPair(r2.proxy) => r1.agent # r2.agent)
  /\ [][ClearAgentCache =>
          /\ agentCache' = {}
          /\ {e.agent : e \in agentCache} \subseteq destroyed']_vars
  /\ [][(agentCache = {} /\ pooled' # pooled) =>
          \A r \in pooled' \ pooled : r.agent \notin {o.agent : o \in pooled}]_vars

\* after a clearAgentCache the direct descriptor got a new agent, and two proxy
\* descriptors that differ only in how ":" splits username from password got
\* different agents
C33_Witness ==
  \E r1 \in pooled, r2 \in pooled, r3 \in pooled :
    /\ r1.agent \in destroyed
    /\ r2.agent \notin destroyed
    /\ r1.proxy = r2.proxy
    /\ r1.agent # r2.agent
    /\ r3.proxy.username # <<>> /\ r3.proxy.password # <<>>
    /\ r3.agent \notin {r1.agent, r2.agent}

\* C34: the delay waited before attempt i, for i >= 1 with the first attempt numbered
\* 0, is retryBaseDelay * retryBackoffMultiplier^(i-1); with the default
\* configuration the delays before the attempts 1, 2 and 3 are 1000, 2000 and 4000 ms.
C34_BackoffDelay ==
  delay # <<>> =>
    /\ attemptCount >= 1
    /\ delay[1] = retry.retryBaseDelay * Pow(retry.retryBackoffMultiplier, attemptCount - 1)
    /\ (/\ retry.retryBaseDelay = 1000
        /\ retry.retryBackoffMultiplier = 2) =>
         /\ attemptCount = 1 => delay[1] = 1000
         /\ attemptCount = 2 => delay[1] = 2000
         /\ attemptCount = 3 => delay[1] = 4000

\* the default configuration has waited before its third and last retry
C34_Witness ==
  /\ retry = DefaultRetry
  /\ attemptCount = 3
  /\ delay = <<4000>>

\* C40: whenever a downloadFileWithProxy call issues https.get for a destination,
\* in downloadFile of the downloader or in the legacy downloadFile it falls back to,
\* the lock of the destination exists and was written by the side that issues it.
C40_TransferOnlyUnderLock ==
  [][\A p \in Procs :
       (IssuesTransfer(p) \/ (pc[p] # "legacy_requested" /\ pc'[p] = "legacy_requested"))
       => /\ Exists(lock[dest[p]])
          /\ HolderOf(lock[dest[p]].val) = wid[p]]_vars

====
